---- MODULE Spec2Model ----
(***************************************************************************)
(* A model of the broker protocol engine of src/src/auth.rs:               *)
(* BrokerClientApplication (device enrollment, PRT acquisition, PRT        *)
(* exchange and rotation, sealing), its data types and their serde         *)
(* (de)serialization.  The token endpoint, the device-join endpoint and    *)
(* the hardware capability (BoxedDynTpm) are the environment: every call   *)
(* to them is a step whose outcome is chosen nondeterministically.         *)
(***************************************************************************)
EXTENDS Integers, Sequences, FiniteSets, TLC

(***************************************************************************)
(* Rust values.  Option<T>: None is <<>>, Some(x) is <<x>>.                *)
(* Result<T, MsalError>: Ok(v) / Err(kind, payload).                       *)
(***************************************************************************)
None == <<>>

Some(x) == <<x>>

IsSome(o) == Len(o) = 1

Unwrap(o) == o[1]

Ok(v) == [ok |-> TRUE, v |-> v]

Err(kind, msg) == [ok |-> FALSE, kind |-> kind, msg |-> msg]

(* Result::map_err: an error replaced by another, an Ok value kept. *)
map_err(r, kind, msg) == IF r.ok THEN r ELSE Err(kind, msg)

(***************************************************************************)
(* JSON values (serde_json::Value): tagged records, each tag with its own  *)
(* payload field.  An object is a function from its keys to values.        *)
(***************************************************************************)
JNull == [t |-> "null"]

JStr(s) == [t |-> "str", s |-> s]

JNum(n) == [t |-> "num", n |-> n]

JObj(o) == [t |-> "obj", o |-> o]

HasKey(j, k) == k \in DOMAIN j.o

(* Serialize for Option<String>: None is null, Some(s) a string. *)
SerOptStr(o) == IF IsSome(o) THEN JStr(Unwrap(o)) ELSE JNull

(* Deserialize for a required String field of a derived struct. *)
DeString(j, k) ==
    IF ~HasKey(j, k) THEN Err("InvalidJson", "missing field")
    ELSE IF j.o[k].t = "str" THEN Ok(j.o[k].s)
    ELSE Err("InvalidJson", "invalid type")

(* Deserialize for a required unsigned integer field (u32 / u64). *)
DeUInt(j, k) ==
    IF ~HasKey(j, k) THEN Err("InvalidJson", "missing field")
    ELSE IF j.o[k].t = "num" /\ j.o[k].n >= 0 THEN Ok(j.o[k].n)
    ELSE Err("InvalidJson", "invalid type")

(* Deserialize for an Option<String> field: absent or null is None. *)
DeOptString(j, k) ==
    IF ~HasKey(j, k) THEN Ok(None)
    ELSE IF j.o[k].t = "null" THEN Ok(None)
    ELSE IF j.o[k].t = "str" THEN Ok(Some(j.o[k].s))
    ELSE Err("InvalidJson", "invalid type")

(***************************************************************************)
(* Uuid.  A Uuid value is named by its canonical (lower-case hyphenated)   *)
(* text; Uuid::parse_str also accepts the upper-case spelling and yields   *)
(* the same value; Serialize writes the canonical text.                    *)
(***************************************************************************)
Uuids == {"uuid-1", "uuid-2"}

UuidParse(s) ==
    CASE s \in Uuids -> Ok(s)
      [] s = "UUID-1" -> Ok("uuid-1")
      [] s = "UUID-2" -> Ok("uuid-2")
      [] OTHER -> Err("InvalidParse", "uuid")

UuidToString(u) == u

(* Deserialize for an Option<Uuid> field. *)
DeOptUuid(j, k) ==
    IF ~HasKey(j, k) THEN Ok(None)
    ELSE IF j.o[k].t = "null" THEN Ok(None)
    ELSE IF j.o[k].t = "str"
         THEN LET u == UuidParse(j.o[k].s)
              IN  IF u.ok THEN Ok(Some(u.v)) ELSE Err("InvalidJson", "uuid")
    ELSE Err("InvalidJson", "invalid type")

(***************************************************************************)
(* Texts read character by character (str, as the library calls below see  *)
(* it): printable ASCII, without JSON whitespace and string escapes.       *)
(***************************************************************************)
(* The character at position i; the empty text outside the text. *)
CharAt(s, i) == IF i \in 1..Len(s) THEN SubSeq(s, i, i) ELSE ""

(* The first position from i on at which s has the character c; 0 if none. *)
Find(s, c, i) ==
    IF \E k \in i..Len(s) : CharAt(s, k) = c
    THEN CHOOSE k \in i..Len(s) :
           CharAt(s, k) = c /\ \A m \in i..(k - 1) : CharAt(s, m) # c
    ELSE 0

(* The texts of chars[lo..hi], joined. *)
RECURSIVE Concat(_, _, _)
Concat(chars, lo, hi) ==
    CASE lo > hi -> ""
      [] lo = hi -> chars[lo]
      [] OTHER -> Concat(chars, lo, (lo + hi) \div 2)
                    \o Concat(chars, (lo + hi) \div 2 + 1, hi)

(* str::splitn(n, sep): at most n pieces, the last one holding the rest. *)
RECURSIVE splitn(_, _, _)
splitn(n, s, sep) ==
    IF n = 1 \/ Find(s, sep, 1) = 0 THEN <<s>>
    ELSE <<SubSeq(s, 1, Find(s, sep, 1) - 1)>>
           \o splitn(n - 1, SubSeq(s, Find(s, sep, 1) + 1, Len(s)), sep)

(* The characters of the bytes 32..126, in order (byte 96, which a string
   here cannot spell, is held by a tab). *)
Ascii ==
    " !\"#$%&'()*+,-./0123456789:;<=>?@ABCDEFGHIJKLMNOPQRSTUVWXYZ[\\]^_\tabcdefghijklmnopqrstuvwxyz{|}~"

CodeTable == [c \in {CharAt(Ascii, i) : i \in 1..Len(Ascii)} |-> Find(Ascii, c, 1) + 31]

CodeOf(c) == CodeTable[c]

(* The digits of base64::engine::general_purpose::URL_SAFE_NO_PAD. *)
UrlSafeAlphabet ==
    "ABCDEFGHIJKLMNOPQRSTUVWXYZabcdefghijklmnopqrstuvwxyz0123456789-_"

SextetTable ==
    [c \in {CharAt(UrlSafeAlphabet, i) : i \in 1..Len(UrlSafeAlphabet)} |->
       Find(UrlSafeAlphabet, c, 1) - 1]

(* The value of a digit; -1 for a character that is no digit. *)
Sextet(s, i) ==
    IF CharAt(s, i) \in DOMAIN SextetTable THEN SextetTable[CharAt(s, i)] ELSE -1

(* The value of the digit at position i, 0 past the end of the text. *)
SextetOr0(s, i) == IF i > Len(s) THEN 0 ELSE Sextet(s, i)

(* The three bytes of four digits. *)
Quantum(a, b, c, d) ==
    <<a * 4 + b \div 16, (b % 16) * 16 + c \div 4, (c % 4) * 64 + d>>

(* Byte k of the decoded text: four digits give three bytes, a last group
   of three digits two bytes, of two digits one byte. *)
DecodedByte(s, k) ==
    Quantum(SextetOr0(s, 4 * ((k - 1) \div 3) + 1), SextetOr0(s, 4 * ((k - 1) \div 3) + 2),
            SextetOr0(s, 4 * ((k - 1) \div 3) + 3), SextetOr0(s, 4 * ((k - 1) \div 3) + 4))
      [((k - 1) % 3) + 1]

DecodedLen(s) == 3 * (Len(s) \div 4) + (IF Len(s) % 4 = 0 THEN 0 ELSE (Len(s) % 4) - 1)

(* Engine::decode of URL_SAFE_NO_PAD: every character a digit, no lone
   trailing digit, no padding, the unused low bits of the last digit zero. *)
URL_SAFE_NO_PAD_decode(s) ==
    IF \/ \E i \in 1..Len(s) : Sextet(s, i) < 0
       \/ Len(s) % 4 = 1
       \/ Len(s) % 4 = 2 /\ Sextet(s, Len(s)) % 16 # 0
       \/ Len(s) % 4 = 3 /\ Sextet(s, Len(s)) % 4 # 0
    THEN Err("InvalidParse", "base64")
    ELSE Ok([k \in 1..DecodedLen(s) |-> DecodedByte(s, k)])

(* String::from_utf8 on printable ASCII; any other byte is refused. *)
String_from_utf8(bytes) ==
    IF \E i \in 1..Len(bytes) : bytes[i] < 32 \/ bytes[i] > 126
    THEN Err("InvalidParse", "utf8")
    ELSE Ok(Concat([i \in 1..Len(bytes) |-> CharAt(Ascii, bytes[i] - 31)], 1, Len(bytes)))

(* URL_SAFE_NO_PAD.decode(..).and_then(String::from_utf8) *)
DecodeUtf8(bytes) == IF bytes.ok THEN String_from_utf8(bytes.v) ELSE bytes

(* Engine::encode of URL_SAFE_NO_PAD, as the server applies it. *)
DigitAt(n) == CharAt(UrlSafeAlphabet, n + 1)

Digits4(a, b, c) ==
    DigitAt(a \div 4) \o DigitAt((a % 4) * 16 + b \div 16)
      \o DigitAt((b % 16) * 4 + c \div 64) \o DigitAt(c % 64)

(* The code of the character at position i, 0 past the end of the text. *)
CodeOr0(s, i) == IF i > Len(s) THEN 0 ELSE CodeOf(CharAt(s, i))

(* Digit k of the encoded text. *)
EncodedDigit(s, k) ==
    CharAt(Digits4(CodeOr0(s, 3 * ((k - 1) \div 4) + 1), CodeOr0(s, 3 * ((k - 1) \div 4) + 2),
                   CodeOr0(s, 3 * ((k - 1) \div 4) + 3)),
           ((k - 1) % 4) + 1)

EncodedLen(s) == 4 * (Len(s) \div 3) + (IF Len(s) % 3 = 0 THEN 0 ELSE (Len(s) % 3) + 1)

URL_SAFE_NO_PAD_encode(s) ==
    Concat([k \in 1..EncodedLen(s) |-> EncodedDigit(s, k)], 1, EncodedLen(s))

(* The end of the run of decimal digits that starts at i (i - 1 if none). *)
RECURSIVE DigitsEnd(_, _)
DigitsEnd(s, i) ==
    IF i <= Len(s) /\ Find("0123456789", CharAt(s, i), 1) > 0
    THEN DigitsEnd(s, i + 1)
    ELSE i - 1

(* The number a run of decimal digits spells, most significant first. *)
RECURSIVE DecimalValue(_, _)
DecimalValue(s, acc) ==
    IF Len(s) = 0 THEN acc
    ELSE DecimalValue(Tail(s), acc * 10 + Find("0123456789", Head(s), 1) - 1)

(* serde_json::from_str::<Value> on an object of strings, numbers and
   nulls.  A member is "key":value; members are separated by commas. *)
JsonSyntax == Err("InvalidJson", "syntax")

RECURSIVE ParseMembers(_, _, _)
AfterValue(s, i, o) ==
    CASE i = Len(s) /\ CharAt(s, i) = "}" -> Ok([t |-> "obj", o |-> o])
      [] i < Len(s) /\ CharAt(s, i) = "," -> ParseMembers(s, i + 1, o)
      [] OTHER -> JsonSyntax

ParseValue(s, i, key, o) ==
    CASE CharAt(s, i) = "\"" /\ Find(s, "\"", i + 1) > 0 ->
           AfterValue(s, Find(s, "\"", i + 1) + 1,
                      (key :> [t |-> "str", s |-> SubSeq(s, i + 1, Find(s, "\"", i + 1) - 1)]) @@ o)
      [] i + 3 <= Len(s) /\ SubSeq(s, i, i + 3) = "null" ->
           AfterValue(s, i + 4, (key :> [t |-> "null"]) @@ o)
      [] DigitsEnd(s, i) >= i ->
           AfterValue(s, DigitsEnd(s, i) + 1,
                      (key :> [t |-> "num", n |-> DecimalValue(SubSeq(s, i, DigitsEnd(s, i)), 0)]) @@ o)
      [] OTHER -> JsonSyntax

ParseMembers(s, i, o) ==
    IF /\ CharAt(s, i) = "\""
       /\ Find(s, "\"", i + 1) > 0
       /\ CharAt(s, Find(s, "\"", i + 1) + 1) = ":"
       /\ Find(s, "\"", i + 1) + 2 <= Len(s)
    THEN ParseValue(s, Find(s, "\"", i + 1) + 2, SubSeq(s, i + 1, Find(s, "\"", i + 1) - 1), o)
    ELSE JsonSyntax

ParseObject(s) ==
    CASE s = "{}" -> Ok([t |-> "obj", o |-> <<>>])
      [] Len(s) > 2 /\ CharAt(s, 1) = "{" -> ParseMembers(s, 2, <<>>)
      [] OTHER -> JsonSyntax

(***************************************************************************)
(* Text carried in strings.  The compact forms the decoders split, base64  *)
(* decode and parse are given on the texts the model uses.                 *)
(***************************************************************************)
(* str::splitn(3, '.') *)
SplitN3(s) ==
    CASE s = "hdr.idA.sig" -> <<"hdr", "idA", "sig">>
      [] s = "hdr.idB.sig" -> <<"hdr", "idB", "sig">>
      [] s = "hdr.bad!.sig" -> <<"hdr", "bad!", "sig">>
      [] s = "hdr.notjson.sig" -> <<"hdr", "notjson", "sig">>
      [] OTHER -> <<s>>

(* URL_SAFE_NO_PAD.decode followed by String::from_utf8 *)
B64DecodeUtf8(seg) ==
    CASE seg = "idA" -> Ok("{idA}")
      [] seg = "idB" -> Ok("{idB}")
      [] seg = "notjson" -> Ok("not json")
      [] seg = "ciA" -> Ok("{ciA}")
      [] seg = "ciNoUtid" -> Ok("{ciNoUtid}")
      [] OTHER -> Err("InvalidParse", "base64")

IdTokenA ==
    [name |-> "Ann", oid |-> "uuid-1", preferred_username |-> Some("ann@x"),
     puid |-> None, tenant_region_scope |-> None, tid |-> "uuid-2"]

IdTokenB ==
    [name |-> "Bob", oid |-> "uuid-2", preferred_username |-> None,
     puid |-> Some("p2"), tenant_region_scope |-> Some("EU"), tid |-> "uuid-2"]

(* Serialize for IdToken (derived): every field, None as null. *)
SerIdToken(t) ==
    JObj([name |-> JStr(t.name), oid |-> JStr(t.oid),
          preferred_username |-> SerOptStr(t.preferred_username),
          puid |-> SerOptStr(t.puid),
          tenant_region_scope |-> SerOptStr(t.tenant_region_scope),
          tid |-> JStr(t.tid)])

(* serde_json::from_str on the texts the model uses. *)
JsonFromStr(text) ==
    CASE text = "{idA}" -> Ok(SerIdToken(IdTokenA))
      [] text = "{idB}" -> Ok(SerIdToken(IdTokenB))
      [] text = "{ciA}" -> Ok(JObj([uid |-> JStr("uuid-1"), utid |-> JStr("UUID-2")]))
      [] text = "{ciNoUtid}" -> Ok(JObj([uid |-> JStr("uuid-1")]))
      [] OTHER -> Err("InvalidJson", "syntax")

(* Deserialize for IdToken (derived). *)
DeIdToken(j) ==
    IF j.t # "obj" THEN Err("InvalidJson", "invalid type")
    ELSE LET name == DeString(j, "name")
             oid == DeString(j, "oid")
             pu == DeOptString(j, "preferred_username")
             puid == DeOptString(j, "puid")
             trs == DeOptString(j, "tenant_region_scope")
             tid == DeString(j, "tid")
         IN  IF name.ok /\ oid.ok /\ pu.ok /\ puid.ok /\ trs.ok /\ tid.ok
             THEN Ok([name |-> name.v, oid |-> oid.v, preferred_username |-> pu.v,
                      puid |-> puid.v, tenant_region_scope |-> trs.v, tid |-> tid.v])
             ELSE Err("InvalidJson", "IdToken")

(* impl FromStr for IdToken *)
IdToken_from_json(j) ==
    IF ~j.ok THEN Err("InvalidParse", "Failed parsing id_token from json")
    ELSE map_err(DeIdToken(j.v), "InvalidParse", "Failed parsing id_token from json")

IdToken_from_payload(text) ==
    IF ~text.ok THEN Err("InvalidParse", "Failed parsing id_token")
    ELSE IdToken_from_json(JsonFromStr(text.v))

IdToken_from_parts(parts) ==
    IF Len(parts) < 2 THEN Err("InvalidParse", "Failed parsing id_token payload")
    ELSE IdToken_from_payload(B64DecodeUtf8(parts[2]))

IdToken_from_str(s) == IdToken_from_parts(SplitN3(s))

(* impl FromStr for IdToken, on a text read character by character. *)
IdToken_from_chars_payload(text) ==
    IF ~text.ok THEN Err("InvalidParse", "Failed parsing id_token")
    ELSE IdToken_from_json(ParseObject(text.v))

(* The same, reading the first segment (the header) as the payload. *)
IdToken_from_chars_header(s) ==
    IF Len(splitn(3, s, ".")) < 2
    THEN Err("InvalidParse", "Failed parsing id_token payload")
    ELSE IdToken_from_chars_payload(
           DecodeUtf8(URL_SAFE_NO_PAD_decode(splitn(3, s, ".")[1])))

IdToken_from_chars(s) ==
    IF Len(splitn(3, s, ".")) < 2
    THEN Err("InvalidParse", "Failed parsing id_token payload")
    ELSE IdToken_from_chars_payload(
           DecodeUtf8(URL_SAFE_NO_PAD_decode(splitn(3, s, ".")[2])))

ClientInfoDefault == [uid |-> None, utid |-> None]

(* Serialize for ClientInfo (derived). *)
SerOptUuid(o) == IF IsSome(o) THEN JStr(UuidToString(Unwrap(o))) ELSE JNull

SerClientInfo(c) == JObj([uid |-> SerOptUuid(c.uid), utid |-> SerOptUuid(c.utid)])

(* Deserialize for ClientInfo (derived). *)
DeClientInfo(j) ==
    IF j.t # "obj" THEN Err("InvalidJson", "invalid type")
    ELSE LET uid == DeOptUuid(j, "uid")
             utid == DeOptUuid(j, "utid")
         IN  IF uid.ok /\ utid.ok THEN Ok([uid |-> uid.v, utid |-> utid.v])
             ELSE Err("InvalidJson", "ClientInfo")

(* Value::to_string of client_info[key], quotes trimmed: a missing key
   indexes to Value::Null, whose text is "null". *)
ValueText(j, k) ==
    IF ~HasKey(j, k) THEN "null"
    ELSE IF j.o[k].t = "str" THEN j.o[k].s
    ELSE "null"

(* impl FromStr for ClientInfo *)
ClientInfo_from_uuids(uid, utid) ==
    IF uid.ok /\ utid.ok THEN Ok([uid |-> Some(uid.v), utid |-> Some(utid.v)])
    ELSE Err("InvalidParse", "Failed parsing client_info")

ClientInfo_from_value(j) ==
    IF ~j.ok \/ j.v.t # "obj" THEN Err("InvalidParse", "Failed parsing client_info")
    ELSE ClientInfo_from_uuids(UuidParse(ValueText(j.v, "uid")),
                               UuidParse(ValueText(j.v, "utid")))

ClientInfo_from_text(text) ==
    IF ~text.ok THEN Err("InvalidParse", "Failed parsing client_info")
    ELSE ClientInfo_from_value(JsonFromStr(text.v))

ClientInfo_from_str(s) == ClientInfo_from_text(B64DecodeUtf8(s))

(***************************************************************************)
(* struct TGT                                                              *)
(***************************************************************************)
TGTDefault ==
    [client_key |-> None, key_type |-> 0, error |-> None, message_buffer |-> None,
     realm |-> None, sn |-> None, cn |-> None, session_key_type |-> 0,
     account_type |-> 0]

TGTCloud ==
    [client_key |-> Some("ck"), key_type |-> 18, error |-> None,
     message_buffer |-> Some("mb"), realm |-> Some("R"), sn |-> Some("krbtgt"),
     cn |-> Some("ann"), session_key_type |-> 18, account_type |-> 2]

TGTError ==
    [client_key |-> None, key_type |-> 0, error |-> Some("no tgt"),
     message_buffer |-> None, realm |-> None, sn |-> None, cn |-> None,
     session_key_type |-> 0, account_type |-> 1]

(* A Serialize for TGT without the renames Deserialize expects. *)
SerTGT_unrenamed(g) ==
    JObj([client_key |-> SerOptStr(g.client_key), key_type |-> JNum(g.key_type),
          error |-> SerOptStr(g.error), message_buffer |-> SerOptStr(g.message_buffer),
          realm |-> SerOptStr(g.realm), sn |-> SerOptStr(g.sn), cn |-> SerOptStr(g.cn),
          session_key_type |-> JNum(g.session_key_type),
          account_type |-> JNum(g.account_type)])

(* Serialize for TGT (derived, with its renames). *)
SerTGT(g) ==
    JObj([clientKey |-> SerOptStr(g.client_key), keyType |-> JNum(g.key_type),
          error |-> SerOptStr(g.error), messageBuffer |-> SerOptStr(g.message_buffer),
          realm |-> SerOptStr(g.realm), sn |-> SerOptStr(g.sn), cn |-> SerOptStr(g.cn),
          sessionKeyType |-> JNum(g.session_key_type),
          accountType |-> JNum(g.account_type)])

(* Deserialize for TGT (derived, with its renames). *)
DeTGT(j) ==
    IF j.t # "obj" THEN Err("InvalidJson", "invalid type")
    ELSE LET ck == DeOptString(j, "clientKey")
             kt == DeUInt(j, "keyType")
             er == DeOptString(j, "error")
             mb == DeOptString(j, "messageBuffer")
             re == DeOptString(j, "realm")
             sn == DeOptString(j, "sn")
             cn == DeOptString(j, "cn")
             skt == DeUInt(j, "sessionKeyType")
             at == DeUInt(j, "accountType")
         IN  IF ck.ok /\ kt.ok /\ er.ok /\ mb.ok /\ re.ok /\ sn.ok /\ cn.ok
                /\ skt.ok /\ at.ok
             THEN Ok([client_key |-> ck.v, key_type |-> kt.v, error |-> er.v,
                      message_buffer |-> mb.v, realm |-> re.v, sn |-> sn.v,
                      cn |-> cn.v, session_key_type |-> skt.v,
                      account_type |-> at.v])
             ELSE Err("InvalidJson", "TGT")

(* impl FromStr for TGT: serde_json::from_str of the text. *)
TGT_from_str(s) ==
    CASE s = "{tgtCloud}" -> Ok(TGTCloud)
      [] OTHER -> Err("InvalidParse", "Failed parsing tgt")

(* FromStr and the derived Deserialize of the types decoded from a string
   or a structure. *)
FromStrOf(T, text) ==
    CASE T = "IdToken" -> IdToken_from_str(text)
      [] T = "ClientInfo" -> ClientInfo_from_str(text)
      [] OTHER -> TGT_from_str(text)

DeserializeOf(T, j) ==
    CASE T = "IdToken" -> DeIdToken(j)
      [] T = "ClientInfo" -> DeClientInfo(j)
      [] OTHER -> DeTGT(j)

(* fn decode_string_or_struct::<T>: deserialize_any with a visitor that
   takes a string through FromStr and a map through the derived Deserialize;
   any other JSON type is an invalid-type error.  Errors are serde errors. *)
decode_string_or_struct(j, T) ==
    CASE j.t = "str" ->
           map_err(FromStrOf(T, j.s), "InvalidJson", "Failed to parse string")
      [] j.t = "obj" -> DeserializeOf(T, j)
      [] OTHER -> Err("InvalidJson", "invalid type: expected string or map")

(* A field with deserialize_with = decode_string_or_struct and no default. *)
DeStringOrStruct(j, k, T) ==
    IF ~HasKey(j, k) THEN Err("InvalidJson", "missing field")
    ELSE decode_string_or_struct(j.o[k], T)

(* The same field without #[serde(default)]: an absent field is an error. *)
DeStringOrStruct_no_default(j, k, T, dflt) ==
    IF ~HasKey(j, k) THEN Err("InvalidJson", "missing field")
    ELSE decode_string_or_struct(j.o[k], T)

(* The same with #[serde(default)]: an absent field is T::default(). *)
DeStringOrStructDefault(j, k, T, dflt) ==
    IF ~HasKey(j, k) THEN Ok(dflt)
    ELSE decode_string_or_struct(j.o[k], T)

(***************************************************************************)
(* struct PrimaryRefreshToken                                              *)
(***************************************************************************)
(* Serialize for PrimaryRefreshToken (derived): all thirteen fields,
   id_token, client_info and the TGTs as nested objects. *)
SerPRT(p) ==
    JObj([token_type |-> JStr(p.token_type),
          expires_in |-> JStr(p.expires_in),
          ext_expires_in |-> JStr(p.ext_expires_in),
          expires_on |-> JStr(p.expires_on),
          refresh_token |-> JStr(p.refresh_token),
          refresh_token_expires_in |-> JNum(p.refresh_token_expires_in),
          session_key_jwe |-> SerOptStr(p.session_key_jwe),
          id_token |-> SerIdToken(p.id_token),
          client_info |-> SerClientInfo(p.client_info),
          device_tenant_id |-> SerOptStr(p.device_tenant_id),
          tgt_ad |-> SerTGT(p.tgt_ad),
          tgt_cloud |-> SerTGT(p.tgt_cloud),
          kerberos_top_level_names |-> SerOptStr(p.kerberos_top_level_names)])

(* Deserialize for PrimaryRefreshToken (derived). *)
DePRT(j) ==
    IF j.t # "obj" THEN Err("InvalidJson", "invalid type")
    ELSE LET tt == DeString(j, "token_type")
             ei == DeString(j, "expires_in")
             eei == DeString(j, "ext_expires_in")
             eo == DeString(j, "expires_on")
             rt == DeString(j, "refresh_token")
             rtei == DeUInt(j, "refresh_token_expires_in")
             skj == DeOptString(j, "session_key_jwe")
             idt == DeStringOrStruct(j, "id_token", "IdToken")
             ci == DeStringOrStructDefault(j, "client_info", "ClientInfo", ClientInfoDefault)
             dti == DeOptString(j, "device_tenant_id")
             ta == DeStringOrStructDefault(j, "tgt_ad", "TGT", TGTDefault)
             tc == DeStringOrStructDefault(j, "tgt_cloud", "TGT", TGTDefault)
             ktln == DeOptString(j, "kerberos_top_level_names")
         IN  IF tt.ok /\ ei.ok /\ eei.ok /\ eo.ok /\ rt.ok /\ rtei.ok /\ skj.ok
                /\ idt.ok /\ ci.ok /\ dti.ok /\ ta.ok /\ tc.ok /\ ktln.ok
             THEN Ok([token_type |-> tt.v, expires_in |-> ei.v,
                      ext_expires_in |-> eei.v, expires_on |-> eo.v,
                      refresh_token |-> rt.v, refresh_token_expires_in |-> rtei.v,
                      session_key_jwe |-> skj.v, id_token |-> idt.v,
                      client_info |-> ci.v, device_tenant_id |-> dti.v,
                      tgt_ad |-> ta.v, tgt_cloud |-> tc.v,
                      kerberos_top_level_names |-> ktln.v])
             ELSE Err("InvalidJson", "PrimaryRefreshToken")

(* Bytes: a serde_json encoding of a value, or bytes that are no JSON. *)
JsonBytes(j) == [utf8 |-> TRUE, json |-> TRUE, j |-> j]

GarbageBytes == [utf8 |-> TRUE, json |-> FALSE, j |-> JNull]

NonUtf8Bytes == [utf8 |-> FALSE, json |-> FALSE, j |-> JNull]

(* serde_json::to_vec and serde_json::from_slice for PrimaryRefreshToken. *)
json_to_vec_PRT(p) == JsonBytes(SerPRT(p))

json_from_slice_PRT(b) ==
    IF b.utf8 /\ b.json THEN DePRT(b.j) ELSE Err("InvalidJson", "syntax")

(* A rotation that forgets to copy the envelope: the new PRT as received. *)
clone_session_key_forgotten(self_prt, new_prt) == new_prt

(* PrimaryRefreshToken::clone_session_key: the new PRT with self's envelope. *)
clone_session_key(self_prt, new_prt) ==
    [new_prt EXCEPT !.session_key_jwe = self_prt.session_key_jwe]

(***************************************************************************)
(* The hardware capability's sealing, as the broker consumes it.  A sealed *)
(* blob is bound to the key it was sealed under: unsealing answers the     *)
(* sealed bytes under that key and an error under any other key; hw_ok is  *)
(* the capability's own success or fault.                                  *)
(***************************************************************************)
msoapxbc_rsa_seal_data(key, data, hw_ok) ==
    IF hw_ok THEN Ok([key |-> key, data |-> data]) ELSE Err("TpmError", "seal")

msoapxbc_rsa_unseal_data(key, sealed, hw_ok) ==
    IF hw_ok /\ sealed.key = key THEN Ok(sealed.data) ELSE Err("TpmError", "unseal")

(* BrokerClientApplication::seal_user_prt *)
seal_user_prt(prt, key, hw_ok) ==
    map_err(msoapxbc_rsa_seal_data(key, json_to_vec_PRT(prt), hw_ok),
            "TPMFail", "Failed sealing PRT")

(* An unseal that reads the blob whatever key it was sealed under. *)
unseal_user_prt_any_key(sealed_data, key, hw_ok) ==
    IF ~hw_ok THEN Err("TPMFail", "Failed unsealing PRT")
    ELSE map_err(json_from_slice_PRT(sealed_data.data),
                 "InvalidJson", "Failed deserializing PRT")

(* An unseal that reports every failure with the one kind. *)
unseal_user_prt_one_kind(sealed_data, key, hw_ok) ==
    IF hw_ok /\ sealed_data.key = key
    THEN map_err(json_from_slice_PRT(sealed_data.data),
                 "TPMFail", "Failed unsealing PRT")
    ELSE Err("TPMFail", "Failed unsealing PRT")

(* BrokerClientApplication::unseal_user_prt *)
unseal_user_prt_data(prt_data) ==
    IF ~prt_data.ok THEN Err("TPMFail", "Failed unsealing PRT")
    ELSE map_err(json_from_slice_PRT(prt_data.v),
                 "InvalidJson", "Failed deserializing PRT")

unseal_user_prt(sealed_data, key, hw_ok) ==
    unseal_user_prt_data(msoapxbc_rsa_unseal_data(key, sealed_data, hw_ok))

(* JweCompact::from_str on the envelopes the model uses: a compact JWE
   parses, any other text does not. *)
JweCompact_from_str(s) ==
    IF s \in {"E1", "E2"} THEN Ok(s) ELSE Err("ParseError", "jwe")

(* A SessionKey::new that keeps the envelope as text, to parse it later. *)
SessionKey_new_unparsed(session_key_jwe) == Ok([session_key_jwe |-> session_key_jwe])

(* SessionKey::new *)
SessionKey_new(session_key_jwe) ==
    IF JweCompact_from_str(session_key_jwe).ok
    THEN Ok([session_key_jwe |-> session_key_jwe])
    ELSE Err("InvalidParse", "Failed parsing jwe")

(* PrimaryRefreshToken::session_key *)
session_key(prt) ==
    IF ~IsSome(prt.session_key_jwe) THEN Err("CryptoFail", "session_key_jwe missing")
    ELSE SessionKey_new(Unwrap(prt.session_key_jwe))

(***************************************************************************)
(* struct UserToken                                                        *)
(***************************************************************************)
(* The modulus of u32, scaled from 2^32 to 2^16: the model checker's
   integers are 32-bit, and `as u32` keeps the low bits all the same. *)
U32Modulus == 2 ^ 16

(* str::parse::<u32>: an optional '+', then decimal digits only, at least
   one, spelling a number below the modulus. *)
parse_u32_digits(s) ==
    IF Len(s) = 0 THEN Err("ParseIntError", "cannot parse integer from empty string")
    ELSE IF DigitsEnd(s, 1) # Len(s) THEN Err("ParseIntError", "invalid digit found in string")
    ELSE IF Len(s) > 9 \/ DecimalValue(s, 0) >= U32Modulus
         THEN Err("ParseIntError", "number too large to fit in target type")
    ELSE Ok(DecimalValue(s, 0))

ParseU32(s) ==
    IF Len(s) > 1 /\ Head(s) = "+" THEN parse_u32_digits(Tail(s))
    ELSE parse_u32_digits(s)

(* fn decode_number_from_string: a number through as_u64 then `as u32`,
   a string through parse::<u32>. *)
decode_number_from_string(j) ==
    CASE j.t = "num" ->
           IF j.n >= 0 THEN Ok(j.n % U32Modulus)
           ELSE Err("InvalidJson", "Expected number or string")
      [] j.t = "str" ->
           LET r == ParseU32(j.s)
           IN  IF r.ok THEN r ELSE Err("InvalidJson", "parse")
      [] OTHER -> Err("InvalidJson", "Expected number or string")

DeNumberFromString(j, k) ==
    IF ~HasKey(j, k) THEN Err("InvalidJson", "missing field")
    ELSE decode_number_from_string(j.o[k])

(* Deserialize for UserToken (derived); a response carries no prt field.
   idt is what decode_string_or_struct made of the id_token member. *)
DeUserToken_fields(j, idt) ==
    IF j.t # "obj" THEN Err("InvalidJson", "invalid type")
    ELSE LET tt == DeString(j, "token_type")
             sc == DeOptString(j, "scope")
             ei == DeNumberFromString(j, "expires_in")
             eei == DeNumberFromString(j, "ext_expires_in")
             at == DeOptString(j, "access_token")
             rt == DeString(j, "refresh_token")
             ci == DeStringOrStructDefault(j, "client_info", "ClientInfo", ClientInfoDefault)
         IN  IF tt.ok /\ sc.ok /\ ei.ok /\ eei.ok /\ at.ok /\ rt.ok /\ idt.ok /\ ci.ok
             THEN Ok([token_type |-> tt.v, scope |-> sc.v, expires_in |-> ei.v,
                      ext_expires_in |-> eei.v, access_token |-> at.v,
                      refresh_token |-> rt.v, id_token |-> idt.v,
                      client_info |-> ci.v, prt |-> None])
             ELSE Err("InvalidJson", "UserToken")

DeUserToken(j) ==
    DeUserToken_fields(j, IF j.t = "obj" THEN DeStringOrStruct(j, "id_token", "IdToken")
                          ELSE Err("InvalidJson", "invalid type"))

(***************************************************************************)
(* What the servers may answer (the environment's inputs).                 *)
(***************************************************************************)
(* A PRT as the token endpoint writes it: id_token and client_info in
   their compact string forms, the TGTs as nested structures. *)
PrtBodyFull ==
    JObj([token_type |-> JStr("Bearer"), expires_in |-> JStr("1209600"),
          ext_expires_in |-> JStr("0"), expires_on |-> JStr("1700000000"),
          refresh_token |-> JStr("rt-1"), refresh_token_expires_in |-> JNum(1209600),
          session_key_jwe |-> JStr("E1"), id_token |-> JStr("hdr.idA.sig"),
          client_info |-> JStr("ciA"), device_tenant_id |-> JStr("uuid-2"),
          tgt_ad |-> SerTGT(TGTError), tgt_cloud |-> SerTGT(TGTCloud),
          kerberos_top_level_names |-> JStr(".x.com")])

(* A PRT without TGTs and client_info, under another envelope. *)
PrtBodyMinimal ==
    JObj([token_type |-> JStr("Bearer"), expires_in |-> JStr("1209600"),
          ext_expires_in |-> JStr("0"), expires_on |-> JStr("1700000000"),
          refresh_token |-> JStr("rt-2"), refresh_token_expires_in |-> JNum(1209600),
          session_key_jwe |-> JStr("E2"), id_token |-> SerIdToken(IdTokenB)])

(* A PRT without a session-key envelope (a rotation response). *)
PrtBodyNoEnvelope ==
    JObj([token_type |-> JStr("Bearer"), expires_in |-> JStr("1209600"),
          ext_expires_in |-> JStr("0"), expires_on |-> JStr("1700000000"),
          refresh_token |-> JStr("rt-3"), refresh_token_expires_in |-> JNum(1209600),
          id_token |-> JStr("hdr.idA.sig"), client_info |-> JStr("ciA"),
          tgt_cloud |-> SerTGT(TGTCloud)])

(* A PRT whose envelope is not a compact JWE. *)
PrtBodyBadEnvelope ==
    JObj([token_type |-> JStr("Bearer"), expires_in |-> JStr("1209600"),
          ext_expires_in |-> JStr("0"), expires_on |-> JStr("1700000000"),
          refresh_token |-> JStr("rt-4"), refresh_token_expires_in |-> JNum(1209600),
          session_key_jwe |-> JStr("not a jwe"), id_token |-> SerIdToken(IdTokenA)])

(* A body that is JSON but no PRT: refresh_token is missing and the
   id_token string does not decode. *)
PrtBodyInvalid ==
    JObj([token_type |-> JStr("Bearer"), expires_in |-> JStr("1209600"),
          ext_expires_in |-> JStr("0"), expires_on |-> JStr("1700000000"),
          refresh_token_expires_in |-> JNum(1209600),
          id_token |-> JStr("hdr.bad!.sig")])

PrtBodies == {PrtBodyFull, PrtBodyInvalid}

RotationBodies == {PrtBodyNoEnvelope, PrtBodyMinimal, PrtBodyInvalid}

TokenBodyFull ==
    JObj([token_type |-> JStr("Bearer"), scope |-> JStr("openid"),
          expires_in |-> JStr("3600"), ext_expires_in |-> JNum(3600),
          access_token |-> JStr("at-1"), refresh_token |-> JStr("rt-9"),
          id_token |-> JStr("hdr.idB.sig"), client_info |-> JStr("ciA")])

TokenBodyNoClientInfo ==
    JObj([token_type |-> JStr("Bearer"), expires_in |-> JNum(3600),
          ext_expires_in |-> JNum(0), refresh_token |-> JStr("rt-9"),
          id_token |-> SerIdToken(IdTokenA)])

TokenBodyInvalid ==
    JObj([token_type |-> JStr("Bearer"), expires_in |-> JStr("soon"),
          ext_expires_in |-> JNum(0), refresh_token |-> JStr("rt-9"),
          id_token |-> SerIdToken(IdTokenA)])

TokenBodies == {TokenBodyFull, TokenBodyNoClientInfo, TokenBodyInvalid}

(* The statuses an HTTP answer can have, and StatusCode::is_success. *)
HttpStatuses == {200, 400, 500}

is_success(status) == status \in 200..299

(* The bodies a non-success answer can have: a structured error, JSON that
   is no structured error, and text that is no JSON. *)
ErrorBodies ==
    {JsonBytes(JObj([error |-> JStr("invalid_grant"),
                     error_description |-> JStr("AADSTS50126: invalid password")])),
     JsonBytes(JObj([message |-> JStr("Service Unavailable")])),
     GarbageBytes}

(* resp.json::<ErrorResponse>(): the body is JSON, an object with the
   error and its description. *)
resp_json_ErrorResponse(body) ==
    IF ~(body.utf8 /\ body.json) THEN Err("InvalidJson", "syntax")
    ELSE IF body.j.t # "obj" THEN Err("InvalidJson", "invalid type")
    ELSE IF DeString(body.j, "error").ok /\ DeString(body.j, "error_description").ok
    THEN Ok([error |-> body.j.o.error.s,
             error_description |-> body.j.o.error_description.s])
    ELSE Err("InvalidJson", "missing field")

(* A token-endpoint error reported as a general failure with the body. *)
TokenEndpointError_general(body) == Err("GeneralFailure", body)

(* The else branch of a token-endpoint request: the error body is parsed
   and returned as AcquireTokenFailed; a body that does not parse is
   InvalidJson. *)
TokenEndpointError(body) ==
    IF resp_json_ErrorResponse(body).ok
    THEN Err("AcquireTokenFailed", resp_json_ErrorResponse(body).v)
    ELSE Err("InvalidJson", "ErrorResponse")

(* The session-key envelopes a response body can be encrypted under. *)
Envelopes == {"E1", "E2"}

(* Certificates the device-join service may return: the subject's entries. *)
Certificates ==
    {[subject |-> <<"device-1234", "x">>], [subject |-> <<>>],
     [subject |-> <<"invalid-asn1">>]}

(***************************************************************************)
(* The state: one BrokerClientApplication, the hardware capability, the    *)
(* caller, and the broker operation in progress.                           *)
(***************************************************************************)
VARIABLES
    self_transport_key, \* BrokerClientApplication.transport_key
    self_cert_key,      \* BrokerClientApplication.cert_key
    tpm_created,        \* keys the hardware capability has created
    opname,             \* the public operation in progress (or the last one)
    pc,                 \* its position in Program(opname); 0 when none runs
    awaiting,           \* a network request is sent and its answer pending
    l,                  \* the operation's local variables
    res,                \* the result the last operation returned
    trace,              \* the network requests, hardware calls and signed
                        \* assertions of the operation, in order
    stored,             \* the SealedData the caller keeps from the last result
    chain_root          \* the envelope of the first PRT of stored's chain

vars ==
    <<self_transport_key, self_cert_key, tpm_created, opname, pc, awaiting, l,
      res, trace, stored, chain_root>>

(* Bounds of the model. *)
MaxKeys == 2

(* The handles a client can be constructed with (a previous enrollment). *)
TransportKey0 == 0

CertKey0 == [id |-> 0, cert |-> Some([subject |-> <<"device-0">>])]

(* A PRT acquisition that asks for a nonce twice. *)
AcquirePrtSteps_two_nonces(nonce_step) ==
    <<nonce_step, nonce_step, "cert_key", "signer_new", "cert_sign", "prt_post">>

(* A PRT acquisition that submits its assertion before signing it. *)
AcquirePrtSteps_post_unsigned(nonce_step) ==
    <<nonce_step, "prt_post", "cert_key", "signer_new", "cert_sign">>

(* A PRT acquisition that loads the cert key before it asks for a nonce. *)
AcquirePrtSteps_cert_key_first(nonce_step) ==
    <<"cert_key", nonce_step, "signer_new", "cert_sign", "prt_post">>

(* The steps of each public operation, in the order its code performs them. *)
AcquirePrtSteps(nonce_step) ==
    <<nonce_step, "cert_key", "signer_new", "cert_sign", "prt_post">>

(* An exchange that keeps the session key derived for signing and uses it
   again to decrypt the answer. *)
ExchangeSteps_cached_key(nonce_step, post_step) ==
    <<nonce_step, "transport_key_sign", "sk_agree_sign", "sk_sign", post_step>>

ExchangeSteps(nonce_step, post_step) ==
    <<nonce_step, "transport_key_sign", "sk_agree_sign", "sk_sign", post_step,
      "sk_agree_dec">>

Program(op) ==
    CASE op = "enroll_device" ->
           <<"identity_key_create", "msoapxbc_rsa_key_create", "certificate_request",
             "load_new_transport_key", "public_as_der", "discover", "join_post",
             "associate_certificate">>
      [] op = "acquire_user_prt_by_username_password" ->
           AcquirePrtSteps("nonce_up") \o <<"transport_key", "seal_prt">>
      [] op = "acquire_user_prt_by_refresh_token" ->
           AcquirePrtSteps("nonce_rt") \o <<"transport_key", "seal_prt">>
      [] op = "acquire_token_by_username_password" ->
           AcquirePrtSteps("nonce_up") \o <<"transport_key", "session_key">>
             \o ExchangeSteps("nonce_x", "xchg_post")
             \o <<"decipher_token", "seal_prt">>
      [] op = "acquire_token_by_refresh_token" ->
           AcquirePrtSteps("nonce_rt") \o <<"transport_key", "session_key">>
             \o ExchangeSteps("nonce_x", "xchg_post")
             \o <<"decipher_token", "seal_prt">>
      [] op = "exchange_prt_for_access_token" ->
           <<"transport_key", "unseal", "session_key">>
             \o ExchangeSteps("nonce_x", "xchg_post") \o <<"decipher_token">>
      [] op = "exchange_prt_for_prt" ->
           <<"transport_key", "unseal", "session_key">>
             \o ExchangeSteps("nonce_r", "rot_post")
             \o <<"decipher_prt", "seal_new_prt">>
      [] op = "acquire_token_by_username_password_for_device_enrollment" ->
           <<"token_post">>
      [] OTHER -> <<>>

NonceSteps == {"nonce_up", "nonce_rt", "nonce_x", "nonce_r"}

NetSteps ==
    NonceSteps \cup {"prt_post", "xchg_post", "rot_post", "token_post", "discover",
                     "join_post"}

AtStep(s) == pc > 0 /\ Program(opname)[pc] = s

(* The locals of an operation, all unset. *)
L0 ==
    [sealed_in |-> None, access_token |-> None,
     old_transport_key |-> None, old_cert_key |-> None, in_chain |-> None,
     nonce |-> None, jwt |-> None, signed_jwt |-> None,
     cert_key |-> None, transport_key |-> None, transport_key_sign |-> None,
     prt |-> None, session_key |-> None, jwe |-> None, token |-> None,
     new_prt |-> None, response_prt |-> None, sealed |-> None,
     loadable_cert_key |-> None, loadable_transport_key |-> None,
     join_endpoint |-> None, cert |-> None, device_id |-> None,
     new_loadable_cert_key |-> None, resp |-> None,
     scope |-> <<>>, request_resource |-> None, request_tgt |-> FALSE,
     form |-> None]

ResNone == [status |-> "none", kind |-> "", val |-> None]

(* No operation is in flight and the last result has been taken. *)
Idle == pc = 0 /\ res = ResNone

(* An operation has just returned, or its future has been dropped. *)
Finished == pc = 0 /\ res # ResNone

HwEv(what, ok) ==
    [k |-> "hw", what |-> what, st |-> IF ok THEN "ok" ELSE "fail", nonce |-> 0]

NetEv(what, st) == [k |-> "net", what |-> what, st |-> st, nonce |-> 0]

JwtEv(signer, nonce) == [k |-> "jwt", what |-> signer, st |-> "ok", nonce |-> nonce]

(* The last event of the trace, its status replaced. *)
Answered(st) == [trace EXCEPT ![Len(trace)] = [@ EXCEPT !.st = st]]

(* The last event of the trace answered with a nonce. *)
AnsweredNonce(nonce) ==
    [trace EXCEPT ![Len(trace)] = [@ EXCEPT !.st = "ok", !.nonce = nonce]]

(* A return value that is the PRT itself where SealedData is returned. *)
RetVal_plaintext_prt(op, loc) ==
    CASE op = "enroll_device" ->
           <<Unwrap(loc.loadable_transport_key), Unwrap(loc.new_loadable_cert_key),
             Unwrap(loc.device_id)>>
      [] op \in {"acquire_token_by_username_password", "acquire_token_by_refresh_token"} ->
           [Unwrap(loc.token) EXCEPT !.client_info = Unwrap(loc.prt).client_info,
                                     !.prt = loc.sealed]
      [] op \in {"exchange_prt_for_access_token",
                 "acquire_token_by_username_password_for_device_enrollment"} ->
           Unwrap(loc.token)
      [] op = "exchange_prt_for_prt" -> Unwrap(loc.new_prt)
      [] OTHER -> Unwrap(loc.prt)

(* A return value whose UserToken has no PRT attached. *)
RetVal_prt_not_attached(op, loc) ==
    CASE op = "enroll_device" ->
           <<Unwrap(loc.loadable_transport_key), Unwrap(loc.new_loadable_cert_key),
             Unwrap(loc.device_id)>>
      [] op \in {"acquire_token_by_username_password", "acquire_token_by_refresh_token"} ->
           [Unwrap(loc.token) EXCEPT !.client_info = Unwrap(loc.prt).client_info]
      [] op \in {"exchange_prt_for_access_token",
                 "acquire_token_by_username_password_for_device_enrollment"} ->
           Unwrap(loc.token)
      [] OTHER -> Unwrap(loc.sealed)

(* What a public operation returns once its last step has succeeded. *)
RetVal(op, loc) ==
    CASE op = "enroll_device" ->
           <<Unwrap(loc.loadable_transport_key), Unwrap(loc.new_loadable_cert_key),
             Unwrap(loc.device_id)>>
      [] op \in {"acquire_token_by_username_password", "acquire_token_by_refresh_token"} ->
           [Unwrap(loc.token) EXCEPT !.client_info = Unwrap(loc.prt).client_info,
                                     !.prt = loc.sealed]
      [] op \in {"exchange_prt_for_access_token",
                 "acquire_token_by_username_password_for_device_enrollment"} ->
           Unwrap(loc.token)
      [] OTHER -> Unwrap(loc.sealed)

(* The SealedData a successful result hands to the caller, if any. *)
SealedOf(op, loc) ==
    IF op \in {"enroll_device", "exchange_prt_for_access_token",
               "acquire_token_by_username_password_for_device_enrollment"}
    THEN None
    ELSE loc.sealed

(* The envelope of the first PRT of the chain the returned PRT belongs to:
   a rotation continues the chain of its input. *)
RootOf(op, loc) ==
    IF op = "exchange_prt_for_prt" THEN loc.in_chain
    ELSE Some(Unwrap(loc.prt).session_key_jwe)

(* The operation returns Ok. *)
Return(loc) ==
    /\ pc' = 0
    /\ res' = [status |-> "ok", kind |-> "", val |-> Some(RetVal(opname, loc))]
    /\ IF IsSome(SealedOf(opname, loc))
       THEN stored' = SealedOf(opname, loc) /\ chain_root' = RootOf(opname, loc)
       ELSE UNCHANGED <<stored, chain_root>>

(* The step succeeded: go on to the next one, or return. *)
Advance(loc) ==
    /\ l' = loc
    /\ awaiting' = FALSE
    /\ IF pc < Len(Program(opname))
       THEN pc' = pc + 1 /\ UNCHANGED <<res, stored, chain_root>>
       ELSE Return(loc)

(* A failed step that is tried again instead of returning its error. *)
Fail_retried(kind, msg) ==
    /\ pc' = pc
    /\ awaiting' = FALSE
    /\ UNCHANGED <<l, res, stored, chain_root>>

(* A failure that still hands the caller the PRT acquired so far, sealed. *)
FailAt_handing_prt(kind, msg, loc) ==
    /\ pc' = 0
    /\ awaiting' = FALSE
    /\ res' = [status |-> "err", kind |-> kind, val |-> Some(msg)]
    /\ l' = loc
    /\ stored' = IF IsSome(loc.prt)
                 THEN Some([key |-> TransportKey0, data |-> json_to_vec_PRT(Unwrap(loc.prt))])
                 ELSE stored
    /\ UNCHANGED chain_root

(* The step failed with the locals loc: the error is returned at once. *)
FailAt(kind, msg, loc) ==
    /\ pc' = 0
    /\ awaiting' = FALSE
    /\ res' = [status |-> "err", kind |-> kind, val |-> Some(msg)]
    /\ l' = loc
    /\ UNCHANGED <<stored, chain_root>>

(* The step failed: `?` returns the error at once. *)
Fail(kind, msg) == FailAt(kind, msg, l)

(* let resp = ...send().await: the locals once an endpoint has answered
   with a status and, when the status is no success and the body was read,
   a body. *)
Answer(status, body) == [l EXCEPT !.resp = Some([status |-> status, body |-> body])]

Init ==
    /\ self_transport_key \in {None, Some(TransportKey0)}
    /\ self_cert_key \in {None, Some(CertKey0)}
    /\ tpm_created = 0
    /\ opname = "none"
    /\ pc = 0
    /\ awaiting = FALSE
    /\ l = L0
    /\ res = ResNone
    /\ trace = <<>>
    /\ stored = None
    /\ chain_root = None

(***************************************************************************)
(* The public operations are called by the caller, one at a time.          *)
(***************************************************************************)
keys == <<self_transport_key, self_cert_key, tpm_created>>

(* An operation that moves the held transport key out of the client. *)
StartOp_taking_transport_key(name, loc) ==
    /\ Idle
    /\ opname' = name
    /\ pc' = 1
    /\ awaiting' = FALSE
    /\ l' = [loc EXCEPT !.old_transport_key = Some(self_transport_key),
                        !.old_cert_key = Some(self_cert_key)]
    /\ self_transport_key' = None
    /\ UNCHANGED <<self_cert_key, tpm_created, res, trace, stored, chain_root>>

StartOp(name, loc) ==
    /\ Idle
    /\ opname' = name
    /\ pc' = 1
    /\ awaiting' = FALSE
    /\ l' = [loc EXCEPT !.old_transport_key = Some(self_transport_key),
                        !.old_cert_key = Some(self_cert_key)]
    /\ UNCHANGED <<keys, res, trace, stored, chain_root>>

(* The caller has the result of the call: the locals of the operation are
   dropped, and the client can be called again. *)
Returned ==
    /\ Finished
    /\ opname' = "none"
    /\ l' = L0
    /\ res' = ResNone
    /\ trace' = <<>>
    /\ UNCHANGED <<keys, pc, awaiting, stored, chain_root>>

(* BrokerClientApplication::set_transport_key *)
set_transport_key ==
    /\ Idle
    /\ \E k \in {None, Some(TransportKey0)} : self_transport_key' = k
    /\ UNCHANGED <<self_cert_key, tpm_created, opname, pc, awaiting, l, res, trace,
                   stored, chain_root>>

(* BrokerClientApplication::set_cert_key *)
set_cert_key ==
    /\ Idle
    /\ \E k \in {None, Some(CertKey0)} : self_cert_key' = k
    /\ UNCHANGED <<self_transport_key, tpm_created, opname, pc, awaiting, l, res,
                   trace, stored, chain_root>>

(* SealedData the caller can pass: what it stored, or blobs sealed under
   the constructor's transport key in an earlier session: a PRT, a PRT
   without an envelope, one whose envelope is no JWE, bytes that are no
   JSON, and JSON that is no PRT. *)
Prt0 == DePRT(PrtBodyMinimal).v

ForeignSealed ==
    {[key |-> TransportKey0, data |-> json_to_vec_PRT(Prt0)],
     [key |-> TransportKey0, data |-> json_to_vec_PRT(DePRT(PrtBodyNoEnvelope).v)],
     [key |-> TransportKey0, data |-> json_to_vec_PRT(DePRT(PrtBodyBadEnvelope).v)],
     [key |-> TransportKey0, data |-> GarbageBytes],
     [key |-> TransportKey0, data |-> JsonBytes(PrtBodyInvalid)]}

CallerSealed == (IF IsSome(stored) THEN {Unwrap(stored)} ELSE {}) \cup ForeignSealed

(* The chain a sealed input belongs to: stored's chain, or a new one. *)
ChainOf(sealed) ==
    IF IsSome(stored) /\ Unwrap(stored) = sealed THEN chain_root
    ELSE LET p == json_from_slice_PRT(sealed.data)
         IN  IF p.ok THEN Some(p.v.session_key_jwe) ELSE None

Call_enroll_device ==
    /\ tpm_created + 2 <= MaxKeys
    /\ \E at \in {None, Some("at-drs")} :
         StartOp("enroll_device", [L0 EXCEPT !.access_token = Some(at)])

Call_acquire_user_prt_by_username_password ==
    StartOp("acquire_user_prt_by_username_password", L0)

Call_acquire_user_prt_by_refresh_token ==
    StartOp("acquire_user_prt_by_refresh_token", L0)

(* The scope lists a caller asks for: none, and two scopes. *)
Scopes == {<<>>, <<"User.Read", "Mail.Read">>}

Call_acquire_token_by_username_password ==
    \E scopes \in Scopes :
        StartOp("acquire_token_by_username_password", [L0 EXCEPT !.scope = scopes])

Call_acquire_token_by_refresh_token ==
    \E scopes \in Scopes :
        StartOp("acquire_token_by_refresh_token", [L0 EXCEPT !.scope = scopes])

Call_exchange_prt_for_access_token ==
    \E sd \in CallerSealed, scope \in Scopes,
       resource \in {None, Some("https://graph.microsoft.com")} :
        StartOp("exchange_prt_for_access_token",
                [L0 EXCEPT !.sealed_in = Some(sd), !.in_chain = ChainOf(sd),
                           !.scope = scope, !.request_resource = resource])

Call_exchange_prt_for_prt ==
    \E sd \in CallerSealed, request_tgt \in BOOLEAN :
        StartOp("exchange_prt_for_prt",
                [L0 EXCEPT !.sealed_in = Some(sd), !.in_chain = ChainOf(sd),
                           !.request_tgt = request_tgt])

(* BrokerClientApplication::acquire_token_by_username_password_for_device_enrollment:
   the plain flow of the wrapped ClientApplication. *)
Call_acquire_token_by_username_password_for_device_enrollment ==
    StartOp("acquire_token_by_username_password_for_device_enrollment", L0)

(* The caller drops the operation's future while it awaits a response. *)
Cancel ==
    /\ pc > 0
    /\ awaiting
    /\ pc' = 0
    /\ awaiting' = FALSE
    /\ res' = [status |-> "cancelled", kind |-> "", val |-> None]
    /\ UNCHANGED <<keys, opname, l, trace, stored, chain_root>>

(***************************************************************************)
(* Key handles.                                                            *)
(***************************************************************************)
(* A transport_key that reports a missing handle as a hardware fault. *)
transport_key_missing_as_fault(held, hw_ok) ==
    IF IsSome(held) /\ hw_ok THEN Ok(Unwrap(held))
    ELSE Err("TPMFail", "Failed to load IdentityKey")

(* BrokerClientApplication::transport_key: the held handle loaded by the
   hardware capability; hw_ok is msoapxbc_rsa_key_load's outcome. *)
transport_key(held, hw_ok) ==
    IF IsSome(held)
    THEN IF hw_ok THEN Ok(Unwrap(held)) ELSE Err("TPMFail", "Failed to load IdentityKey")
    ELSE Err("ConfigError", "The transport key was not found")

(* BrokerClientApplication::cert_key, with identity_key_load. *)
cert_key(held, hw_ok) ==
    IF IsSome(held)
    THEN IF hw_ok THEN Ok(Unwrap(held)) ELSE Err("TPMFail", "Failed to load IdentityKey")
    ELSE Err("ConfigError", "The certificate key was not found")

(* A step that has the hardware capability create the key anew instead of
   loading the held handle. *)
LoadStep_recreating(held, r, call, loc) ==
    /\ trace' = Append(trace, HwEv("msoapxbc_rsa_key_create", r.ok))
    /\ IF r.ok THEN Advance(loc) ELSE Fail(r.kind, r.msg)

(* A step that loads a held handle: no hardware call without a handle. *)
LoadStep(held, r, call, loc) ==
    /\ trace' = IF IsSome(held) THEN Append(trace, HwEv(call, r.ok)) ELSE trace
    /\ IF r.ok THEN Advance(loc) ELSE Fail(r.kind, r.msg)

Step_transport_key ==
    /\ AtStep("transport_key")
    /\ \E hw_ok \in BOOLEAN :
         LET r == transport_key(self_transport_key, hw_ok)
         IN  LoadStep(self_transport_key, r, "msoapxbc_rsa_key_load",
                      [l EXCEPT !.transport_key = IF r.ok THEN Some(r.v) ELSE None])
    /\ UNCHANGED <<keys, opname>>

(* A sign_session_key_jwt that loads the cert key, as sign_jwt does. *)
Step_transport_key_sign_with_cert_key ==
    /\ AtStep("transport_key_sign")
    /\ \E hw_ok \in BOOLEAN :
         LoadStep(self_cert_key, cert_key(self_cert_key, hw_ok), "identity_key_load",
                  [l EXCEPT !.transport_key_sign = l.transport_key])
    /\ UNCHANGED <<keys, opname>>

(* sign_session_key_jwt loads the transport key again. *)
Step_transport_key_sign ==
    /\ AtStep("transport_key_sign")
    /\ \E hw_ok \in BOOLEAN :
         LET r == transport_key(self_transport_key, hw_ok)
         IN  LoadStep(self_transport_key, r, "msoapxbc_rsa_key_load",
                      [l EXCEPT !.transport_key_sign = IF r.ok THEN Some(r.v) ELSE None])
    /\ UNCHANGED <<keys, opname>>

Step_cert_key ==
    /\ AtStep("cert_key")
    /\ \E hw_ok \in BOOLEAN :
         LET r == cert_key(self_cert_key, hw_ok)
         IN  LoadStep(self_cert_key, r, "identity_key_load",
                      [l EXCEPT !.cert_key = IF r.ok THEN Some(r.v) ELSE None])
    /\ UNCHANGED <<keys, opname>>

(***************************************************************************)
(* enroll_device                                                           *)
(***************************************************************************)
(* A hardware call whose failure is ignored: the operation goes on. *)
HwStep_continuing(call, kind, msg, loc) ==
    \E hw_ok \in BOOLEAN :
        /\ trace' = Append(trace, HwEv(call, hw_ok))
        /\ Advance(loc)

(* A hardware call that either succeeds or fails with `kind`. *)
HwStep(call, kind, msg, loc) ==
    \E hw_ok \in BOOLEAN :
        /\ trace' = Append(trace, HwEv(call, hw_ok))
        /\ IF hw_ok THEN Advance(loc) ELSE Fail(kind, msg)

(* tpm.identity_key_create *)
Step_identity_key_create ==
    /\ AtStep("identity_key_create")
    /\ \E hw_ok \in BOOLEAN :
         /\ trace' = Append(trace, HwEv("identity_key_create", hw_ok))
         /\ IF hw_ok
            THEN /\ Advance([l EXCEPT !.loadable_cert_key =
                                        Some([id |-> tpm_created + 1, cert |-> None])])
                 /\ tpm_created' = tpm_created + 1
            ELSE /\ Fail("TPMFail", "Failed creating certificate key")
                 /\ UNCHANGED tpm_created
    /\ UNCHANGED <<self_transport_key, self_cert_key, opname>>

(* The held transport key after msoapxbc_rsa_key_create has succeeded:
   self.transport_key = Some(loadable_transport_key.clone()). *)
HeldAfterKeyCreate(held, created) == Some(created)

(* tpm.msoapxbc_rsa_key_create and the assignment that follows it *)
Step_msoapxbc_rsa_key_create ==
    /\ AtStep("msoapxbc_rsa_key_create")
    /\ \E hw_ok \in BOOLEAN :
         /\ trace' = Append(trace, HwEv("msoapxbc_rsa_key_create", hw_ok))
         /\ IF hw_ok
            THEN /\ Advance([l EXCEPT !.loadable_transport_key = Some(tpm_created + 1)])
                 /\ tpm_created' = tpm_created + 1
                 /\ self_transport_key' =
                        HeldAfterKeyCreate(self_transport_key, tpm_created + 1)
            ELSE /\ Fail("TPMFail", "Failed creating tranport key")
                 /\ UNCHANGED <<tpm_created, self_transport_key>>
    /\ UNCHANGED <<self_cert_key, opname>>

(* tpm.identity_key_certificate_request *)
Step_certificate_request ==
    /\ AtStep("certificate_request")
    /\ HwStep("identity_key_certificate_request", "TPMFail", "Failed creating CSR", l)
    /\ UNCHANGED <<keys, opname>>

(* tpm.msoapxbc_rsa_key_load of the new handle *)
Step_load_new_transport_key ==
    /\ AtStep("load_new_transport_key")
    /\ HwStep("msoapxbc_rsa_key_load", "TPMFail", "Failed loading id key",
              [l EXCEPT !.transport_key = l.loadable_transport_key])
    /\ UNCHANGED <<keys, opname>>

(* tpm.msoapxbc_rsa_public_as_der, then Rsa::public_key_from_der *)
Step_public_as_der ==
    /\ AtStep("public_as_der")
    /\ \E out \in {"ok", "hw_fail", "der_fail"} :
         /\ trace' = Append(trace, HwEv("msoapxbc_rsa_public_as_der", out # "hw_fail"))
         /\ CASE out = "ok" -> Advance(l)
              [] out = "hw_fail" -> Fail("TPMFail", "Failed getting transport key as der")
              [] OTHER -> Fail("TPMFail", "public_key_from_der")
    /\ UNCHANGED <<keys, opname>>

(* match &token.access_token, then discover_enrollment_services is called *)
Send_discover ==
    /\ AtStep("discover")
    /\ ~awaiting
    /\ IF IsSome(Unwrap(l.access_token))
       THEN /\ trace' = Append(trace, NetEv("discover", "pending"))
            /\ awaiting' = TRUE
            /\ UNCHANGED <<pc, l, res, stored, chain_root>>
       ELSE /\ Fail("GeneralFailure", "Access token not found")
            /\ UNCHANGED trace
    /\ UNCHANGED <<keys, opname>>

(* The error kinds discovery can answer with. *)
DiscoveryErrors == {"RequestFailed", "InvalidJson"}

(* The join endpoints discovery can name: one that parses as a URL and one
   that does not. *)
JoinEndpoints == {"https://join/device/", "not a url"}

Url_parse_with_params(endpoint) ==
    IF endpoint = "not a url" THEN Err("ParseError", "relative URL without a base")
    ELSE Ok(endpoint)

(* discover_enrollment_services answers *)
Recv_discover ==
    /\ AtStep("discover")
    /\ awaiting
    /\ \/ \E kind \in DiscoveryErrors :
            /\ trace' = Answered("fail")
            /\ Fail(kind, "discovery")
       \/ \E ep \in JoinEndpoints :
            /\ trace' = Answered("ok")
            /\ Advance([l EXCEPT !.join_endpoint = Some(ep)])
    /\ UNCHANGED <<keys, opname>>

(* Url::parse_with_params, then the POST to the device-join endpoint is sent *)
Send_join_post ==
    /\ AtStep("join_post")
    /\ ~awaiting
    /\ IF Url_parse_with_params(Unwrap(l.join_endpoint)).ok
       THEN /\ trace' = Append(trace, NetEv("join_post", "pending"))
            /\ awaiting' = TRUE
            /\ UNCHANGED <<pc, l, res, stored, chain_root>>
       ELSE /\ Fail("URLFormatFailed", "url")
            /\ UNCHANGED trace
    /\ UNCHANGED <<keys, opname>>

(* X509NameEntry data as_utf8 *)
as_utf8(entry) ==
    IF entry = "invalid-asn1" THEN Err("ErrorStack", "utf8") ELSE Ok(entry)

(* A device id taken from the last entry of the subject. *)
DeviceIdOf_last_entry(cert) ==
    IF Len(cert.subject) = 0
    THEN Err("GeneralFailure", "The device id was missing from the certificate response")
    ELSE map_err(as_utf8(cert.subject[Len(cert.subject)]), "GeneralFailure", "as_utf8")

(* The device id of a certificate: its subject's first entry. *)
DeviceIdOf(cert) ==
    IF Len(cert.subject) = 0
    THEN Err("GeneralFailure", "The device id was missing from the certificate response")
    ELSE map_err(as_utf8(cert.subject[1]), "GeneralFailure", "as_utf8")

(* A join error that carries a fixed text instead of the body. *)
JoinError_fixed_text(body) == Err("GeneralFailure", "The device join failed")

(* The else branch of the join POST: GeneralFailure(resp.text()). *)
JoinError(body) == Err("GeneralFailure", body)

(* The device-join endpoint answers (enroll_device_internal after send) *)
Recv_join_post ==
    /\ AtStep("join_post")
    /\ awaiting
    /\ \/ /\ trace' = Answered("fail")
          /\ \/ Fail("RequestFailed", "send")
             \/ \E status \in {h \in HttpStatuses : is_success(h)},
                   e \in {<<"InvalidJson", "DRSResponse">>,
                          <<"GeneralFailure", "X509::from_pem">>} :
                  FailAt(e[1], e[2], Answer(status, None))
             \/ \E status \in {h \in HttpStatuses : ~is_success(h)},
                   body \in {"{\"ErrorType\":\"AuthenticationError\"}", "Bad Gateway", ""} :
                  FailAt(JoinError(body).kind, JoinError(body).msg,
                         Answer(status, Some(body)))
             \/ \E status \in {h \in HttpStatuses : ~is_success(h)} :
                  FailAt("GeneralFailure", "error reading body",
                         Answer(status, None))
       \/ \E status \in {h \in HttpStatuses : is_success(h)}, cert \in Certificates :
            LET d == DeviceIdOf(cert)
            IN  IF d.ok
                THEN /\ trace' = Answered("ok")
                     /\ Advance([Answer(status, None) EXCEPT
                                          !.cert = Some(cert), !.device_id = Some(d.v)])
                ELSE /\ trace' = Answered("fail")
                     /\ FailAt(d.kind, d.msg,
                               [Answer(status, None) EXCEPT
                                         !.cert = Some(cert)])
    /\ UNCHANGED <<keys, opname>>

(* An enrollment that keeps the handle from before the association. *)
HeldPreAssociation(loadable_cert_key, new_loadable_cert_key) ==
    Some(loadable_cert_key)

(* The held cert key once the certificate is associated:
   self.cert_key = Some(new_loadable_cert_key.clone()). *)
HeldAfterAssociate(loadable_cert_key, new_loadable_cert_key) ==
    Some(new_loadable_cert_key)

(* cert.to_der, tpm.identity_key_associate_certificate, the assignment of
   self.cert_key and the return *)
Step_associate_certificate ==
    /\ AtStep("associate_certificate")
    /\ \E out \in {"ok", "hw_fail", "der_fail"} :
         LET bound == [id |-> Unwrap(l.loadable_cert_key).id, cert |-> l.cert]
         IN  /\ trace' = IF out = "der_fail" THEN trace
                         ELSE Append(trace, HwEv("identity_key_associate_certificate",
                                                 out = "ok"))
             /\ CASE out = "ok" ->
                       /\ Advance([l EXCEPT !.new_loadable_cert_key = Some(bound)])
                       /\ self_cert_key' =
                              HeldAfterAssociate(Unwrap(l.loadable_cert_key), bound)
                  [] out = "hw_fail" ->
                       /\ Fail("TPMFail", "Failed creating loadable identity key")
                       /\ UNCHANGED self_cert_key
                  [] OTHER ->
                       /\ Fail("TPMFail", "to_der")
                       /\ UNCHANGED self_cert_key
    /\ UNCHANGED <<self_transport_key, tpm_created, opname>>

(***************************************************************************)
(* The token endpoint: nonce requests and jwt-bearer POSTs.                *)
(***************************************************************************)
(* What a token-endpoint step sends. *)
RequestOf(step) == IF step \in NonceSteps THEN "nonce" ELSE step

(* An operation that waits at a request without having sent it. *)
Send_token_endpoint_waiting ==
    /\ pc > 0
    /\ Program(opname)[pc] \in NetSteps \ {"discover", "join_post"}
    /\ ~awaiting
    /\ UNCHANGED vars

(* The local signed_jwt a request is posted with, once there is one. *)
RequestParam(loc) == IF IsSome(loc.signed_jwt) THEN Unwrap(loc.signed_jwt) ELSE None

(* The jwt-bearer parameters every assertion is posted with. *)
JwtBearerParams(version, loc) ==
    <<<<"grant_type", "urn:ietf:params:oauth:grant-type:jwt-bearer">>,
      <<"windows_api_version", version>>,
      <<"request", RequestParam(loc)>>,
      <<"client_info", "1">>>>

(* A rotation that asks for a TGT whatever request_tgt says. *)
FormParams_always_tgt(step, loc) ==
    CASE step \in NonceSteps -> <<<<"grant_type", "srv_challenge">>>>
      [] step = "prt_post" ->
           <<<<"windows_api_version", "2.0">>,
             <<"grant_type", "urn:ietf:params:oauth:grant-type:jwt-bearer">>,
             <<"request", RequestParam(loc)>>, <<"client_info", "1">>,
             <<"tgt", "true">>>>
      [] step = "xchg_post" -> JwtBearerParams("2.2", loc)
      [] step = "rot_post" -> Append(JwtBearerParams("2.2", loc), <<"tgt", "true">>)
      [] OTHER ->
           <<<<"client_id", "client">>, <<"scope", "openid profile offline_access">>,
             <<"username", "ann">>, <<"password", "pw">>,
             <<"grant_type", "password">>, <<"client_info", "1">>>>

(* let params = ...: the form parameters of each request to the token
   endpoint, in the order the code lists them. *)
FormParams(step, loc) ==
    CASE step \in NonceSteps -> <<<<"grant_type", "srv_challenge">>>>
      [] step = "prt_post" ->
           <<<<"windows_api_version", "2.0">>,
             <<"grant_type", "urn:ietf:params:oauth:grant-type:jwt-bearer">>,
             <<"request", RequestParam(loc)>>, <<"client_info", "1">>,
             <<"tgt", "true">>>>
      [] step = "xchg_post" -> JwtBearerParams("2.2", loc)
      [] step = "rot_post" ->
           IF loc.request_tgt
           THEN Append(JwtBearerParams("2.2", loc), <<"tgt", "true">>)
           ELSE JwtBearerParams("2.2", loc)
      [] OTHER ->
           <<<<"client_id", "client">>, <<"scope", "openid profile offline_access">>,
             <<"username", "ann">>, <<"password", "pw">>,
             <<"grant_type", "password">>, <<"client_info", "1">>>>

(* client.post({authority}/oauth2/token).body(payload) ... send() is called *)
Send_token_endpoint ==
    /\ pc > 0
    /\ Program(opname)[pc] \in NetSteps \ {"discover", "join_post"}
    /\ ~awaiting
    /\ trace' = Append(trace, NetEv(RequestOf(Program(opname)[pc]), "pending"))
    /\ awaiting' = TRUE
    /\ l' = [l EXCEPT !.form = Some(FormParams(Program(opname)[pc], l))]
    /\ UNCHANGED <<keys, opname, pc, res, stored, chain_root>>

(* An assertion built with the nonce the flow already has, if it has one. *)
NonceFor_reused(loc, received) ==
    IF IsSome(loc.nonce) THEN Unwrap(loc.nonce) ELSE received

(* let nonce = self.request_nonce().await?: the nonce the assertion gets. *)
NonceFor(loc, received) == received

(* The nonce of an answered nonce request: the requests of one operation
   are numbered in their order, and each answer is a nonce of its own. *)
NoncesAnswered ==
    Cardinality({i \in DOMAIN trace : trace[i].k = "net" /\ trace[i].what = "nonce"
                                       /\ trace[i].st = "ok"})

(* [&str]::join *)
RECURSIVE join(_, _)
join(list, sep) ==
    IF Len(list) = 0 THEN ""
    ELSE IF Len(list) = 1 THEN list[1]
    ELSE list[1] \o sep \o join(Tail(list), sep)

(* A scope string in which the entries are joined before "aza" is added,
   so that an empty list leaves no empty entry. *)
ScopesOf_joined(scope, request_prt) ==
    join(<<"openid">> \o scope \o (IF request_prt THEN <<"aza">> ELSE <<>>), " ")

(* let mut scopes = format!("openid {}", scope.join(" "));
   if request_prt { scopes = format!("{} aza", scopes); } *)
ScopesOf(scope, request_prt) ==
    IF request_prt THEN ("openid " \o join(scope, " ")) \o " aza"
    ELSE "openid " \o join(scope, " ")

(* ExchangePRTPayload::new (win_ver, read from the host's os-release, is
   left out) *)
ExchangePRTPayload_new(prt, scope, nonce, resource, request_prt) ==
    [scope |-> ScopesOf(scope, request_prt), resource |-> resource,
     request_nonce |-> nonce, refresh_token |-> Some(prt.refresh_token),
     iss |-> "aad:brokerplugin", grant_type |-> "refresh_token",
     client_id |-> "38aa3b87-a06d-4817-b275-7a316988d93b",
     aud |-> "login.microsoftonline.com"]

(* match request_resource: the resource asked for, or the default one. *)
ResourceOf(request_resource) ==
    IF IsSome(request_resource) THEN Unwrap(request_resource)
    ELSE "00000002-0000-0000-c000-000000000000"

(* The assertion payload built once the nonce is there:
   UsernamePasswordAuthenticationPayload::new,
   RefreshTokenAuthenticationPayload::new or ExchangePRTPayload::new. *)
BuildJwt(step, loc, nonce) ==
    CASE step = "nonce_up" ->
           [grant_type |-> "password", request_nonce |-> nonce,
            scope |-> "openid aza ugs", refresh_token |-> None]
      [] step = "nonce_rt" ->
           [grant_type |-> "refresh_token", request_nonce |-> nonce,
            scope |-> "openid aza ugs", refresh_token |-> Some("rt-in")]
      [] step = "nonce_x" ->
           ExchangePRTPayload_new(Unwrap(loc.prt), loc.scope, nonce,
                                  Some(ResourceOf(loc.request_resource)), FALSE)
      [] OTHER ->
           ExchangePRTPayload_new(Unwrap(loc.prt), <<>>, nonce, None, TRUE)

(* The structure BuildJwt has built, by the members that tell the three
   payload types apart. *)
PayloadTypeOf(jwt) ==
    CASE jwt.grant_type = "password" -> "UsernamePasswordAuthenticationPayload"
      [] "iss" \notin DOMAIN jwt -> "RefreshTokenAuthenticationPayload"
      [] OTHER -> "ExchangePRTPayload"

(* The types that derive ZeroizeOnDrop: dropping a value of one of them
   wipes its fields (those marked #[zeroize(skip)] excepted) before the
   memory is freed. *)
ZeroizeOnDrop(T) ==
    T \in {"Certificate", "DRSResponse", "DeviceAuthorizationResponse", "UserToken",
           "UsernamePasswordAuthenticationPayload",
           "RefreshTokenAuthenticationPayload", "TGT", "PrimaryRefreshToken",
           "BcryptRsaKeyBlob"}

(* The answers to a request that end it in an error, the same for every
   request to the token endpoint: send fails, or a non-success status with
   a body that parses as ErrorResponse or does not. *)
EndpointFailure ==
    \/ Fail("RequestFailed", "send")
    \/ \E status \in HttpStatuses, body \in ErrorBodies :
          /\ ~is_success(status)
          /\ FailAt(TokenEndpointError(body).kind, TokenEndpointError(body).msg,
                    Answer(status, Some(body)))

(* request_nonce after send, and the assertion its caller builds *)
Recv_nonce ==
    /\ pc > 0
    /\ Program(opname)[pc] \in NonceSteps
    /\ awaiting
    /\ \/ /\ trace' = Answered("fail")
          /\ \/ EndpointFailure
             \/ \E status \in {h \in HttpStatuses : is_success(h)} :
                  FailAt("InvalidJson", "Nonce", Answer(status, None))
       \/ \E status \in {h \in HttpStatuses : is_success(h)} :
            LET nonce == NoncesAnswered + 1
            IN  /\ trace' = AnsweredNonce(nonce)
                /\ Advance([Answer(status, None) EXCEPT
                                     !.nonce = Some(nonce),
                                     !.jwt = Some(BuildJwt(Program(opname)[pc], l,
                                                           NonceFor(l, nonce)))])
    /\ UNCHANGED <<keys, opname>>

(* ClientApplication::acquire_token_by_username_password after send: the
   body of a success answer is parsed as a UserToken. *)
Recv_token_post ==
    /\ AtStep("token_post")
    /\ awaiting
    /\ \/ /\ trace' = Answered("fail")
          /\ EndpointFailure
       \/ \E status \in {h \in HttpStatuses : is_success(h)}, body \in TokenBodies :
            IF DeUserToken(body).ok
            THEN /\ trace' = Answered("ok")
                 /\ Advance([Answer(status, None) EXCEPT
                               !.token = Some(DeUserToken(body).v)])
            ELSE /\ trace' = Answered("fail")
                 /\ FailAt("InvalidJson", "UserToken", Answer(status, None))
    /\ UNCHANGED <<keys, opname>>

(* JwsTpmSigner::new in sign_jwt *)
Step_signer_new ==
    /\ AtStep("signer_new")
    /\ HwStep("JwsTpmSigner::new", "TPMFail", "Failed loading tpm signer", l)
    /\ UNCHANGED <<keys, opname>>

(* A signing call: on success the assertion is signed and its nonce used. *)
SignStep(call, signer, key, kind, msg) ==
    \E hw_ok \in BOOLEAN :
        IF hw_ok
        THEN /\ trace' = Append(Append(trace, HwEv(call, TRUE)),
                                JwtEv(signer, Unwrap(l.jwt).request_nonce))
             /\ Advance([l EXCEPT !.signed_jwt =
                                    Some([jwt |-> Unwrap(l.jwt), signer |-> signer,
                                          key |-> key])])
        ELSE /\ trace' = Append(trace, HwEv(call, FALSE))
             /\ Fail(kind, msg)

(* jws_tpm_signer.sign(jwt) in sign_jwt *)
Step_cert_sign ==
    /\ AtStep("cert_sign")
    /\ SignStep("JwsTpmSigner::sign", "cert_key", Unwrap(l.cert_key).id,
                "TPMFail", "Failed signing jwk")
    /\ UNCHANGED <<keys, opname>>

(* acquire_user_prt_jwt after send *)
Recv_prt_post ==
    /\ AtStep("prt_post")
    /\ awaiting
    /\ \/ /\ trace' = Answered("fail")
          /\ EndpointFailure
       \/ \E status \in {h \in HttpStatuses : is_success(h)}, body \in PrtBodies :
            LET p == DePRT(body)
            IN  IF p.ok
                THEN /\ trace' = Answered("ok")
                     /\ Advance([Answer(status, None) EXCEPT
                                          !.prt = Some(p.v)])
                ELSE /\ trace' = Answered("fail")
                     /\ FailAt("InvalidJson", "PrimaryRefreshToken",
                               Answer(status, None))
    /\ UNCHANGED <<keys, opname>>

(* prt.session_key() *)
Step_session_key ==
    /\ AtStep("session_key")
    /\ LET r == session_key(Unwrap(l.prt))
       IN  IF r.ok THEN Advance([l EXCEPT !.session_key = Some(r.v)])
           ELSE Fail(r.kind, r.msg)
    /\ UNCHANGED <<keys, opname, trace>>

(* MsOapxbcSessionKey::complete_tpm_rsa_oaep_key_agreement in SessionKey::sign *)
Step_sk_agree_sign ==
    /\ AtStep("sk_agree_sign")
    /\ HwStep("complete_tpm_rsa_oaep_key_agreement", "CryptoFail",
              "Unable to decipher session_key_jwe", l)
    /\ UNCHANGED <<keys, opname>>

(* session_key.sign in SessionKey::sign *)
Step_sk_sign ==
    /\ AtStep("sk_sign")
    /\ SignStep("MsOapxbcSessionKey::sign", "session_key",
                Unwrap(l.transport_key_sign), "CryptoFail", "Failed signing jwk")
    /\ UNCHANGED <<keys, opname>>

(* The bodies a success answer to an exchange or rotation POST can have:
   text that is no compact JWE, or a JWE encrypted under an envelope's
   session key, holding bytes. *)
ExchangePayloads(step) ==
    {NonUtf8Bytes, GarbageBytes}
      \cup {JsonBytes(j) : j \in IF step = "rot_post" THEN RotationBodies ELSE TokenBodies}

(* exchange_prt_for_access_token_internal / exchange_prt_for_prt after send,
   up to JweCompact::from_str *)
Recv_exchange_post ==
    /\ pc > 0
    /\ Program(opname)[pc] \in {"xchg_post", "rot_post"}
    /\ awaiting
    /\ \/ /\ trace' = Answered("fail")
          /\ \/ EndpointFailure
             \/ \E status \in {h \in HttpStatuses : is_success(h)},
                   e \in {<<"GeneralFailure", "error reading body">>,
                          <<"InvalidParse", "JweCompact::from_str">>} :
                  FailAt(e[1], e[2], Answer(status, None))
       \/ \E status \in {h \in HttpStatuses : is_success(h)}, env \in Envelopes,
             payload \in ExchangePayloads(Program(opname)[pc]) :
            /\ trace' = Answered("ok")
            /\ Advance([Answer(status, None) EXCEPT
                                 !.jwe = Some([enc_for |-> env, payload |-> payload])])
    /\ UNCHANGED <<keys, opname>>

(* complete_tpm_rsa_oaep_key_agreement in SessionKey::decipher_prt_v2 *)
Step_sk_agree_dec ==
    /\ AtStep("sk_agree_dec")
    /\ HwStep("complete_tpm_rsa_oaep_key_agreement", "CryptoFail",
              "Unable to decipher session_key_jwe", l)
    /\ UNCHANGED <<keys, opname>>

(* A decipher_prt_v2 whose failure is reported as a JSON error. *)
decipher_prt_v2_as_json_error(sk, jwe, hw_ok) ==
    IF hw_ok /\ jwe.enc_for = sk.session_key_jwe THEN Ok(jwe.payload)
    ELSE Err("InvalidJson", "Failed to decipher Jwe")

(* session_key.decipher_prt_v2: the payload, when the hardware call
   succeeds and the JWE was encrypted under this session key. *)
decipher_prt_v2(sk, jwe, hw_ok) ==
    IF hw_ok /\ jwe.enc_for = sk.session_key_jwe THEN Ok(jwe.payload)
    ELSE Err("CryptoFail", "Failed to decipher Jwe")

(* std::str::from_utf8 then json_from_str into T, after decipher_prt_v2 *)
ParseDeciphered(d, T) ==
    IF ~d.ok THEN d
    ELSE IF ~d.v.utf8 THEN Err("InvalidParse", "utf8")
    ELSE IF ~d.v.json THEN Err("InvalidJson", "syntax")
    ELSE map_err(IF T = "UserToken" THEN DeUserToken(d.v.j) ELSE DePRT(d.v.j),
                 "InvalidJson", "json_from_str")

(* decipher_prt_v2 and the parse into a UserToken *)
Step_decipher_token ==
    /\ AtStep("decipher_token")
    /\ \E hw_ok \in BOOLEAN :
         LET d == decipher_prt_v2(Unwrap(l.session_key), Unwrap(l.jwe), hw_ok)
             r == ParseDeciphered(d, "UserToken")
         IN  /\ trace' = Append(trace, HwEv("decipher_prt_v2", d.ok))
             /\ IF r.ok THEN Advance([l EXCEPT !.token = Some(r.v)])
                ELSE Fail(r.kind, r.msg)
    /\ UNCHANGED <<keys, opname>>

(* decipher_prt_v2, the parse into a PrimaryRefreshToken and
   prt.clone_session_key(&mut new_prt) *)
Step_decipher_prt ==
    /\ AtStep("decipher_prt")
    /\ \E hw_ok \in BOOLEAN :
         LET d == decipher_prt_v2(Unwrap(l.session_key), Unwrap(l.jwe), hw_ok)
             r == ParseDeciphered(d, "PrimaryRefreshToken")
         IN  /\ trace' = Append(trace, HwEv("decipher_prt_v2", d.ok))
             /\ IF r.ok
                THEN Advance([l EXCEPT !.response_prt = Some(r.v),
                                       !.new_prt = Some(clone_session_key(Unwrap(l.prt), r.v))])
                ELSE Fail(r.kind, r.msg)
    /\ UNCHANGED <<keys, opname>>

(***************************************************************************)
(* Sealing steps.                                                          *)
(***************************************************************************)
(* self.unseal_user_prt(sealed_prt, tpm, &transport_key) *)
Step_unseal ==
    /\ AtStep("unseal")
    /\ \E hw_ok \in BOOLEAN :
         LET u == msoapxbc_rsa_unseal_data(Unwrap(l.transport_key),
                                           Unwrap(l.sealed_in), hw_ok)
             r == unseal_user_prt(Unwrap(l.sealed_in), Unwrap(l.transport_key), hw_ok)
         IN  /\ trace' = Append(trace, HwEv("msoapxbc_rsa_unseal_data", u.ok))
             /\ IF r.ok THEN Advance([l EXCEPT !.prt = Some(r.v)])
                ELSE Fail(r.kind, r.msg)
    /\ UNCHANGED <<keys, opname>>

(* A seal_user_prt call with the transport key loaded by the operation. *)
SealStep(prt) ==
    \E hw_ok \in BOOLEAN :
        LET r == seal_user_prt(prt, Unwrap(l.transport_key), hw_ok)
        IN  /\ trace' = Append(trace, HwEv("msoapxbc_rsa_seal_data", r.ok))
            /\ IF r.ok THEN Advance([l EXCEPT !.sealed = Some(r.v)])
               ELSE Fail(r.kind, r.msg)

(* self.seal_user_prt(&prt, tpm, &transport_key) *)
Step_seal_prt ==
    /\ AtStep("seal_prt")
    /\ SealStep(Unwrap(l.prt))
    /\ UNCHANGED <<keys, opname>>

(* self.seal_user_prt(&new_prt, tpm, &transport_key) *)
Step_seal_new_prt ==
    /\ AtStep("seal_new_prt")
    /\ SealStep(Unwrap(l.new_prt))
    /\ UNCHANGED <<keys, opname>>

Next ==
    \/ set_transport_key
    \/ set_cert_key
    \/ Call_enroll_device
    \/ Call_acquire_user_prt_by_username_password
    \/ Call_acquire_user_prt_by_refresh_token
    \/ Call_acquire_token_by_username_password
    \/ Call_acquire_token_by_refresh_token
    \/ Call_exchange_prt_for_access_token
    \/ Call_exchange_prt_for_prt
    \/ Call_acquire_token_by_username_password_for_device_enrollment
    \/ Cancel
    \/ Returned
    \/ Step_transport_key
    \/ Step_transport_key_sign
    \/ Step_cert_key
    \/ Step_identity_key_create
    \/ Step_msoapxbc_rsa_key_create
    \/ Step_certificate_request
    \/ Step_load_new_transport_key
    \/ Step_public_as_der
    \/ Send_discover
    \/ Recv_discover
    \/ Send_join_post
    \/ Recv_join_post
    \/ Step_associate_certificate
    \/ Send_token_endpoint
    \/ Recv_nonce
    \/ Step_signer_new
    \/ Step_cert_sign
    \/ Recv_prt_post
    \/ Recv_token_post
    \/ Step_session_key
    \/ Step_sk_agree_sign
    \/ Step_sk_sign
    \/ Recv_exchange_post
    \/ Step_sk_agree_dec
    \/ Step_decipher_token
    \/ Step_decipher_prt
    \/ Step_unseal
    \/ Step_seal_prt
    \/ Step_seal_new_prt

Spec == Init /\ [][Next]_vars

(* A step of the operation in flight: its own code runs, or a collaborator
   call it waits for returns; the caller dropping the future is none. *)
OperationStep == pc > 0 /\ Next /\ res'.status # "cancelled"

(* The same client where the executor polls the operation in flight and
   every network call and every call of the hardware capability returns. *)
LiveSpec == Spec /\ WF_vars(OperationStep)

(***************************************************************************)
(* Sealing on its own: a PRT is sealed under a transport key and the       *)
(* sealed data is unsealed under the same key.                             *)
(***************************************************************************)
TGTs == {TGTDefault, TGTCloud, TGTError}

ClientInfos ==
    {ClientInfoDefault, [uid |-> Some("uuid-1"), utid |-> Some("uuid-2")],
     [uid |-> Some("uuid-1"), utid |-> None]}

(* The PRTs that are sealed: every optional field set and unset. *)
Prts ==
    [token_type : {"Bearer"}, expires_in : {"1209600"}, ext_expires_in : {"0"},
     expires_on : {"1700000000"}, refresh_token : {"rt-1"},
     refresh_token_expires_in : {0, 1209600},
     session_key_jwe : {None, Some("E1")},
     id_token : {IdTokenA, IdTokenB},
     client_info : ClientInfos,
     device_tenant_id : {None, Some("uuid-2")},
     tgt_ad : TGTs, tgt_cloud : TGTs,
     kerberos_top_level_names : {None, Some(".x.com")}]

SealKeys == {0, 1}

SealInit ==
    /\ self_transport_key = None
    /\ self_cert_key = None
    /\ tpm_created = 0
    /\ opname = "seal_user_prt"
    /\ pc = 1
    /\ awaiting = FALSE
    /\ \E p \in Prts, k \in SealKeys :
         l = [L0 EXCEPT !.prt = Some(p), !.transport_key = Some(k)]
    /\ res = ResNone
    /\ trace = <<>>
    /\ stored = None
    /\ chain_root = None

(* seal_user_prt(prt, tpm, key) *)
Do_seal_user_prt ==
    /\ opname = "seal_user_prt"
    /\ pc = 1
    /\ \E hw_ok \in BOOLEAN :
         LET r == seal_user_prt(Unwrap(l.prt), Unwrap(l.transport_key), hw_ok)
         IN  /\ trace' = Append(trace, HwEv("msoapxbc_rsa_seal_data", r.ok))
             /\ IF r.ok
                THEN /\ l' = [l EXCEPT !.sealed = Some(r.v)]
                     /\ pc' = 2
                     /\ UNCHANGED res
                ELSE /\ l' = l
                     /\ pc' = 0
                     /\ res' = [status |-> "err", kind |-> r.kind, val |-> Some(r.msg)]
    /\ UNCHANGED <<keys, opname, awaiting, stored, chain_root>>

(* unseal_user_prt(sealed_data, tpm, key) on what seal_user_prt returned *)
Do_unseal_user_prt ==
    /\ opname = "seal_user_prt"
    /\ pc = 2
    /\ \E hw_ok \in BOOLEAN :
         LET r == unseal_user_prt(Unwrap(l.sealed), Unwrap(l.transport_key), hw_ok)
         IN  /\ trace' = Append(trace, HwEv("msoapxbc_rsa_unseal_data", hw_ok))
             /\ res' = IF r.ok THEN [status |-> "ok", kind |-> "", val |-> Some(r.v)]
                       ELSE [status |-> "err", kind |-> r.kind, val |-> Some(r.msg)]
    /\ pc' = 0
    /\ UNCHANGED <<keys, opname, awaiting, l, stored, chain_root>>

SealNext == Do_seal_user_prt \/ Do_unseal_user_prt

SealSpec == SealInit /\ [][SealNext]_vars

(***************************************************************************)
(* Several broker operations in flight at once on one client and one       *)
(* hardware context.  Every operation that uses the hardware capability   *)
(* takes it as `tpm: &mut BoxedDynTpm`: the exclusive borrow lasts from   *)
(* the call until the future has returned or is dropped.  Here pc, opname, *)
(* awaiting, l and res hold one entry per task; l[t].tpm says that task t  *)
(* holds the exclusive reference, l[t].hw that a call of the hardware      *)
(* capability is in progress in it.                                        *)
(***************************************************************************)
MaxTasks == 2

Tasks == 1..MaxTasks

(* The public operations whose signature has a `tpm: &mut BoxedDynTpm`. *)
TakesTpm(op) == op # "acquire_token_by_username_password_for_device_enrollment"

ConcOps ==
    {"enroll_device", "acquire_user_prt_by_username_password",
     "acquire_user_prt_by_refresh_token", "acquire_token_by_username_password",
     "acquire_token_by_refresh_token", "exchange_prt_for_access_token",
     "exchange_prt_for_prt",
     "acquire_token_by_username_password_for_device_enrollment"}

(* The step task t is at; "" when it runs no operation. *)
StepOf(t) == IF pc[t] > 0 THEN Program(opname[t])[pc[t]] ELSE ""

(* SessionKey::new is the one step that neither sends a request nor calls
   the hardware capability. *)
IsHwStep(s) == s # "" /\ s \notin NetSteps /\ s # "session_key"

ConcInit ==
    /\ self_transport_key = Some(TransportKey0)
    /\ self_cert_key = Some(CertKey0)
    /\ tpm_created = 0
    /\ opname = [t \in Tasks |-> "none"]
    /\ pc = [t \in Tasks |-> 0]
    /\ awaiting = [t \in Tasks |-> FALSE]
    /\ l = [t \in Tasks |-> [tpm |-> FALSE, hw |-> FALSE]]
    /\ res = [t \in Tasks |-> "none"]
    /\ trace = <<>>
    /\ stored = None
    /\ chain_root = None

ConcFixed == <<keys, trace, stored, chain_root>>

(* A caller that hands the same hardware context to a second operation
   while another one holds it. *)
ConcCall_sharing_tpm ==
    /\ \E t \in Tasks, op \in ConcOps :
         /\ pc[t] = 0
         /\ opname' = [opname EXCEPT ![t] = op]
         /\ pc' = [pc EXCEPT ![t] = 1]
         /\ l' = [l EXCEPT ![t] = [tpm |-> TakesTpm(op), hw |-> FALSE]]
    /\ UNCHANGED <<awaiting, res, ConcFixed>>

(* A task calls a public operation.  One with a tpm parameter can be called
   only by a task that has the exclusive reference to give. *)
ConcCall ==
    /\ \E t \in Tasks, op \in ConcOps :
         /\ pc[t] = 0
         /\ TakesTpm(op) => \A u \in Tasks : ~l[u].tpm
         /\ opname' = [opname EXCEPT ![t] = op]
         /\ pc' = [pc EXCEPT ![t] = 1]
         /\ l' = [l EXCEPT ![t] = [tpm |-> TakesTpm(op), hw |-> FALSE]]
    /\ UNCHANGED <<awaiting, res, ConcFixed>>

(* The step of task t has ended: on success the operation goes on or returns
   Ok, on failure `?` returns the error.  A returned operation has given the
   exclusive reference back and its task runs no operation. *)
ConcEnd(t, ok) ==
    /\ awaiting' = [awaiting EXCEPT ![t] = FALSE]
    /\ IF ok /\ pc[t] < Len(Program(opname[t]))
       THEN /\ pc' = [pc EXCEPT ![t] = pc[t] + 1]
            /\ l' = [l EXCEPT ![t].hw = FALSE]
            /\ UNCHANGED res
       ELSE /\ pc' = [pc EXCEPT ![t] = 0]
            /\ l' = [l EXCEPT ![t] = [tpm |-> FALSE, hw |-> FALSE]]
            /\ res' = [res EXCEPT ![t] = IF ok THEN "ok" ELSE "err"]
    /\ opname' = IF pc'[t] = 0 THEN [opname EXCEPT ![t] = "none"] ELSE opname
    /\ UNCHANGED ConcFixed

(* A call of the hardware capability begins ... *)
ConcHwBegin ==
    /\ \E t \in Tasks :
         /\ IsHwStep(StepOf(t))
         /\ ~l[t].hw
         /\ l' = [l EXCEPT ![t].hw = TRUE]
    /\ UNCHANGED <<opname, pc, awaiting, res, ConcFixed>>

(* ... and returns. *)
ConcHwEnd ==
    \E t \in Tasks, ok \in BOOLEAN :
        /\ IsHwStep(StepOf(t))
        /\ l[t].hw
        /\ ConcEnd(t, ok)

(* An operation that gives the hardware context back while it awaits the
   answer to its request. *)
ConcSend_releasing ==
    /\ \E t \in Tasks :
         /\ StepOf(t) \in NetSteps
         /\ ~awaiting[t]
         /\ awaiting' = [awaiting EXCEPT ![t] = TRUE]
         /\ l' = [l EXCEPT ![t].tpm = FALSE]
    /\ UNCHANGED <<opname, pc, res, ConcFixed>>

(* ...send().await: the request is sent; the future, which holds every
   parameter of the operation, is suspended. *)
ConcSend ==
    /\ \E t \in Tasks :
         /\ StepOf(t) \in NetSteps
         /\ ~awaiting[t]
         /\ awaiting' = [awaiting EXCEPT ![t] = TRUE]
    /\ UNCHANGED <<opname, pc, l, res, ConcFixed>>

(* The endpoint has answered, or the request has failed. *)
ConcRecv ==
    \E t \in Tasks, ok \in BOOLEAN :
        /\ awaiting[t]
        /\ ConcEnd(t, ok)

(* SessionKey::new *)
ConcSessionKey ==
    \E t \in Tasks :
        /\ StepOf(t) = "session_key"
        /\ ConcEnd(t, TRUE)

(* The caller drops the future of a suspended operation. *)
ConcCancel ==
    /\ \E t \in Tasks :
         /\ awaiting[t]
         /\ awaiting' = [awaiting EXCEPT ![t] = FALSE]
         /\ pc' = [pc EXCEPT ![t] = 0]
         /\ l' = [l EXCEPT ![t] = [tpm |-> FALSE, hw |-> FALSE]]
         /\ res' = [res EXCEPT ![t] = "dropped"]
         /\ opname' = [opname EXCEPT ![t] = "none"]
    /\ UNCHANGED ConcFixed

ConcNext ==
    \/ ConcCall
    \/ ConcHwBegin
    \/ ConcHwEnd
    \/ ConcSend
    \/ ConcRecv
    \/ ConcSessionKey
    \/ ConcCancel

(* The executor polls every task that can make progress, and the callers go
   on calling. *)
ConcSpec == ConcInit /\ [][ConcNext]_vars /\ WF_vars(ConcNext)

(***************************************************************************)
(* struct BcryptRsaKeyBlob on its own: a blob is built from a bit length,  *)
(* an exponent and a modulus and converted into bytes.                     *)
(***************************************************************************)
MaxBlobLen == 2

(* The byte strings given as exponent and modulus. *)
ByteStrings == UNION {[1..n -> {0, 1, 255}] : n \in 0..MaxBlobLen}

(* The bit lengths given, one for each byte of the u32 and the largest the
   model checker's integers hold. *)
BitLengths == {0, 1, 2048, 65537, 16777216, 2147483647}

(* u32::to_be_bytes: the most significant byte first. *)
to_be_bytes(n) ==
    <<(n \div 16777216) % 256, (n \div 65536) % 256, (n \div 256) % 256, n % 256>>

(* u32::to_le_bytes *)
to_le_bytes(n) ==
    <<n % 256, (n \div 256) % 256, (n \div 65536) % 256, (n \div 16777216) % 256>>

(* usize -> u32 by try_into, mapped to GeneralFailure: n < 2^32. *)
len_try_into_u32(n, what) ==
    IF n \div 65536 < 65536 THEN Ok(n)
    ELSE Err("GeneralFailure", what \o " len into u32 failed")

(* The blob once both lengths are u32: magic, BitLength, cbPublicExpLength,
   cbModulusLength, cbPrime1Length, cbPrime2Length, cbPublicExp, cbModulus. *)
cng_blob(self, exponent_len, modulus_len) ==
    <<82, 83, 65, 49>> \o to_le_bytes(self.bit_length)
        \o to_le_bytes(exponent_len) \o to_le_bytes(modulus_len)
        \o to_le_bytes(0) \o to_le_bytes(0)
        \o self.exponent \o self.modulus

(* impl TryInto<Vec<u8>> for BcryptRsaKeyBlob *)
try_into(self) ==
    IF ~len_try_into_u32(Len(self.exponent), "Exponent").ok
    THEN len_try_into_u32(Len(self.exponent), "Exponent")
    ELSE IF ~len_try_into_u32(Len(self.modulus), "Modulus").ok
    THEN len_try_into_u32(Len(self.modulus), "Modulus")
    ELSE Ok(cng_blob(self, len_try_into_u32(Len(self.exponent), "Exponent").v,
                     len_try_into_u32(Len(self.modulus), "Modulus").v))

(* BcryptRsaKeyBlob::new(bit_length, exponent, modulus) *)
BlobInit ==
    /\ self_transport_key = None
    /\ self_cert_key = None
    /\ tpm_created = 0
    /\ opname = "try_into"
    /\ pc = 1
    /\ awaiting = FALSE
    /\ \E b \in BitLengths, e \in ByteStrings, m \in ByteStrings :
         l = [bit_length |-> b, exponent |-> e, modulus |-> m]
    /\ res = ResNone
    /\ trace = <<>>
    /\ stored = None
    /\ chain_root = None

(* let transport_key_blob: Vec<u8> = BcryptRsaKeyBlob::new(...).try_into()? *)
Do_try_into ==
    /\ opname = "try_into"
    /\ pc = 1
    /\ pc' = 0
    /\ res' = IF try_into(l).ok
              THEN [status |-> "ok", kind |-> "", val |-> Some(try_into(l).v)]
              ELSE [status |-> "err", kind |-> try_into(l).kind,
                    val |-> Some(try_into(l).msg)]
    /\ UNCHANGED <<keys, opname, awaiting, l, trace, stored, chain_root>>

BlobSpec == BlobInit /\ [][Do_try_into]_vars

(***************************************************************************)
(* Parsing a PRT on its own: a body the token endpoint may send, with any  *)
(* of its optional members left out, is parsed as a response body          *)
(* (acquisition) or as the decrypted payload of a rotation.                *)
(***************************************************************************)
(* The members of a PRT body that are Option or have #[serde(default)]. *)
PrtOptionalKeys ==
    {"session_key_jwe", "client_info", "device_tenant_id", "tgt_ad", "tgt_cloud",
     "kerberos_top_level_names"}

(* body without the members named in dropped *)
Without(body, dropped) == JObj([k \in (DOMAIN body.o) \ dropped |-> body.o[k]])

PrtParseInit ==
    /\ self_transport_key = None
    /\ self_cert_key = None
    /\ tpm_created = 0
    /\ opname \in {"resp_json", "json_from_str"}
    /\ pc = 1
    /\ awaiting = FALSE
    /\ \E body \in {PrtBodyFull, PrtBodyInvalid}, dropped \in SUBSET PrtOptionalKeys :
         l = [body |-> Without(body, dropped)]
    /\ res = ResNone
    /\ trace = <<>>
    /\ stored = None
    /\ chain_root = None

(* The result of a parse, returned. *)
Parsed(r) ==
    /\ pc' = 0
    /\ res' = IF r.ok THEN [status |-> "ok", kind |-> "", val |-> Some(r.v)]
              ELSE [status |-> "err", kind |-> r.kind, val |-> Some(r.msg)]
    /\ UNCHANGED <<keys, opname, awaiting, l, trace, stored, chain_root>>

(* let json_resp: PrimaryRefreshToken = resp.json().await.map_err(InvalidJson)? *)
Do_resp_json_PRT ==
    /\ opname = "resp_json"
    /\ pc = 1
    /\ Parsed(map_err(DePRT(l.body), "InvalidJson", "PrimaryRefreshToken"))

(* let mut new_prt: PrimaryRefreshToken = json_from_str(from_utf8(payload)) *)
Do_json_from_str_PRT ==
    /\ opname = "json_from_str"
    /\ pc = 1
    /\ Parsed(ParseDeciphered(Ok(JsonBytes(l.body)), "PrimaryRefreshToken"))

PrtParseNext == Do_resp_json_PRT \/ Do_json_from_str_PRT

PrtParseSpec == PrtParseInit /\ [][PrtParseNext]_vars

(***************************************************************************)
(* decode_string_or_struct::<IdToken> on its own: an id_token given as a   *)
(* JSON object and as the compact token a server makes of that object.     *)
(***************************************************************************)
(* The decimal text of a natural number. *)
RECURSIVE DecimalText(_)
DecimalText(n) ==
    IF n < 10 THEN CharAt("0123456789", n + 1)
    ELSE DecimalText(n \div 10) \o CharAt("0123456789", (n % 10) + 1)

(* The text a server writes for a JSON value, and for the members of an
   object in the order of keys (each member preceded by a comma). *)
ValueJson(v) ==
    CASE v.t = "null" -> "null"
      [] v.t = "str" -> "\"" \o v.s \o "\""
      [] OTHER -> DecimalText(v.n)

RECURSIVE MembersJson(_, _)
MembersJson(o, order) ==
    IF Len(order) = 0 THEN ""
    ELSE IF Head(order) \notin DOMAIN o THEN MembersJson(o, Tail(order))
    ELSE ",\"" \o Head(order) \o "\":" \o ValueJson(o[Head(order)])
           \o MembersJson(o, Tail(order))

ObjectJson(j, order) ==
    IF MembersJson(j.o, order) = "" THEN "{}"
    ELSE "{" \o SubSeq(MembersJson(j.o, order), 2, Len(MembersJson(j.o, order))) \o "}"

IdTokenKeys ==
    <<"name", "oid", "preferred_username", "puid", "tenant_region_scope", "tid">>

(* How a member comes: left out, a string, or the other JSON type (a number
   for name, oid and tid; null for the optional members). *)
Presences == {"absent", "string", "other"}

(* At most this many members of an object are not strings. *)
MaxOddMembers == 2

IdTokenMember(i, presence) ==
    CASE presence = "string" -> JStr(IF i = 1 THEN "Ann" ELSE "uuid-1")
      [] i \in {1, 2, 6} -> JNum(7)
      [] OTHER -> JNull

IdTokenObject(c) ==
    JObj([k \in {IdTokenKeys[i] : i \in {n \in 1..6 : c[n] # "absent"}} |->
            IdTokenMember(CHOOSE i \in 1..6 : IdTokenKeys[i] = k,
                          c[CHOOSE i \in 1..6 : IdTokenKeys[i] = k])])

(* The string a server sends for the object: header.payload.signature, the
   payload the base64url of the object's text; or a string made otherwise. *)
StringForms == {"compact", "two_segments", "one_segment", "padded", "cut"}

Unparseable == {"one_segment", "padded", "cut"}

StringOf(payload, form) ==
    CASE form = "compact" -> "eyJ0eXAiOiJKV1QifQ." \o payload \o ".c2ln"
      [] form = "two_segments" -> "eyJ0eXAiOiJKV1QifQ." \o payload
      [] form = "one_segment" -> payload
      [] form = "padded" -> "eyJ0eXAiOiJKV1QifQ." \o payload \o "=.c2ln"
      [] OTHER -> "eyJ0eXAiOiJKV1QifQ." \o SubSeq(payload, 1, Len(payload) - 1) \o ".c2ln"

IdTokenInit ==
    /\ self_transport_key = None
    /\ self_cert_key = None
    /\ tpm_created = 0
    /\ opname = "decode_string_or_struct"
    /\ pc = 1
    /\ awaiting = FALSE
    /\ \E c \in [1..6 -> Presences], form \in StringForms :
         /\ Cardinality({i \in 1..6 : c[i] # "string"}) <= MaxOddMembers
         /\ l = [json |-> IdTokenObject(c), form |-> form,
              text |-> StringOf(URL_SAFE_NO_PAD_encode(
                                  ObjectJson(IdTokenObject(c), IdTokenKeys)), form),
              from_str |-> None, from_map |-> None, user_token |-> None]
    /\ res = ResNone
    /\ trace = <<>>
    /\ stored = None
    /\ chain_root = None

IdTokenFixed == UNCHANGED <<keys, opname, pc, awaiting, res, trace, stored, chain_root>>

(* StringOrStruct::<IdToken>::visit_str *)
visit_str(value) == map_err(IdToken_from_chars(value), "InvalidJson", "Failed to parse string")

(* The field arrives as a string. *)
Do_visit_str ==
    /\ l.from_str = None
    /\ l' = [l EXCEPT !.from_str = Some(visit_str(l.text))]
    /\ IdTokenFixed

(* The field arrives as the object: StringOrStruct::visit_map *)
Do_visit_map ==
    /\ l.from_map = None
    /\ l' = [l EXCEPT !.from_map = Some(decode_string_or_struct(l.json, "IdToken"))]
    /\ IdTokenFixed

(* A UserToken is deserialized whose id_token is the string. *)
Do_json_UserToken ==
    /\ l.user_token = None
    /\ l' = [l EXCEPT !.user_token =
               Some(DeUserToken_fields(
                      JObj([TokenBodyFull.o EXCEPT !.id_token = JStr(l.text)]),
                      visit_str(l.text)))]
    /\ IdTokenFixed

IdTokenNext == Do_visit_str \/ Do_visit_map \/ Do_json_UserToken

IdTokenSpec == IdTokenInit /\ [][IdTokenNext]_vars

(***************************************************************************)
(* decode_number_from_string on its own: a number given as a JSON number   *)
(* and as the decimal string of that number.                               *)
(***************************************************************************)
(* How far around 0, the modulus and twice the modulus the numbers go. *)
MaxAround == 10

Numbers ==
    (0..MaxAround) \cup ((U32Modulus - MaxAround)..(U32Modulus + MaxAround))
      \cup ((2 * U32Modulus - MaxAround)..(2 * U32Modulus + MaxAround)) \cup {3600}

NumberInit ==
    /\ self_transport_key = None
    /\ self_cert_key = None
    /\ tpm_created = 0
    /\ opname = "decode_number_from_string"
    /\ pc = 1
    /\ awaiting = FALSE
    /\ \E n \in Numbers : l = [n |-> n, from_number |-> None, from_string |-> None]
    /\ res = ResNone
    /\ trace = <<>>
    /\ stored = None
    /\ chain_root = None

(* The value arrives as a JSON number: Value::Number(n) *)
Do_decode_number ==
    /\ l.from_number = None
    /\ l' = [l EXCEPT !.from_number = Some(decode_number_from_string(JNum(l.n)))]
    /\ IdTokenFixed

(* The value arrives as its decimal string: Value::String(s) *)
Do_decode_string ==
    /\ l.from_string = None
    /\ l' = [l EXCEPT !.from_string =
               Some(decode_number_from_string(JStr(DecimalText(l.n))))]
    /\ IdTokenFixed

NumberNext == Do_decode_number \/ Do_decode_string

NumberSpec == NumberInit /\ [][NumberNext]_vars

(***************************************************************************)
(* Properties.                                                             *)
(***************************************************************************)
Succeeded(op) == Finished /\ opname = op /\ res.status = "ok"

(* The PRT serialized in sealed data. *)
PrtIn(sealed) == json_from_slice_PRT(sealed.data).v

NetEvents == SelectSeq(trace, LAMBDA e : e.k = "net")

TakesSealedPrt == opname \in {"exchange_prt_for_access_token", "exchange_prt_for_prt"}

(* C1: a successful exchange_prt_for_prt returns a sealed PRT whose
   session_key_jwe is that of the input PRT, whatever envelope the
   deciphered response has; so the PRT the caller keeps always carries the
   envelope of the first PRT of its chain of rotations. *)
RotationKeepsEnvelope ==
    /\ Succeeded("exchange_prt_for_prt") =>
         PrtIn(Unwrap(res.val)).session_key_jwe
            = PrtIn(Unwrap(l.sealed_in)).session_key_jwe
    /\ IsSome(stored) => Some(PrtIn(Unwrap(stored)).session_key_jwe) = chain_root

(* A rotation has succeeded on a response without an envelope. *)
RotationWithoutEnvelopeDone ==
    /\ Succeeded("exchange_prt_for_prt")
    /\ Unwrap(l.response_prt).session_key_jwe = None
    /\ PrtIn(Unwrap(res.val)).session_key_jwe # None

(* C2: a PRT sealed under a key and unsealed under the same key, the
   hardware calls succeeding, comes back Ok and equal in every field. *)
SealUnsealRoundTrip ==
    (opname = "seal_user_prt" /\ pc = 0 /\ \A i \in DOMAIN trace : trace[i].st = "ok")
        => /\ res.status = "ok"
           /\ Unwrap(res.val) = Unwrap(l.prt)

(* A PRT with TGT records, client_info and no envelope has made the trip. *)
RoundTripDone ==
    /\ opname = "seal_user_prt" /\ pc = 0 /\ res.status = "ok"
    /\ Unwrap(l.prt).tgt_cloud = TGTCloud
    /\ Unwrap(l.prt).tgt_ad = TGTError
    /\ Unwrap(l.prt).client_info.uid # None
    /\ Unwrap(l.prt).session_key_jwe = None

(* The sealed input was sealed under another key than the one loaded. *)
KeyMismatch ==
    /\ IsSome(l.sealed_in)
    /\ IsSome(l.transport_key)
    /\ Unwrap(l.sealed_in).key # Unwrap(l.transport_key)

(* The operation ended at its unseal step. *)
UnsealFailed ==
    /\ TakesSealedPrt
    /\ Finished
    /\ IsSome(l.transport_key)
    /\ l.prt = None

(* C3: with sealed data of another transport key than the loaded one,
   exchange_prt_for_access_token and exchange_prt_for_prt get no PRT, send
   no network request and end with TPMFail. *)
WrongKeyUnsealFails ==
    (TakesSealedPrt /\ KeyMismatch) =>
        /\ l.prt = None
        /\ pc \in {0, 2}
        /\ NetEvents = <<>>
        /\ Finished => (res.status = "err" /\ res.kind = "TPMFail")

(* A rotation has ended at the unseal of sealed data of another key. *)
WrongKeyUnsealDone ==
    /\ opname = "exchange_prt_for_prt"
    /\ Finished
    /\ KeyMismatch
    /\ trace[Len(trace)] = HwEv("msoapxbc_rsa_unseal_data", FALSE)

(* C4: a failed unseal is TPMFail exactly when the hardware capability did
   not unseal (as with a key mismatch), and InvalidJson exactly when it did
   unseal and the bytes are no serialized PRT. *)
UnsealFailuresDistinct ==
    UnsealFailed =>
        /\ res.status = "err"
        /\ res.kind \in {"TPMFail", "InvalidJson"}
        /\ KeyMismatch => res.kind = "TPMFail"
        /\ res.kind = "TPMFail"
             <=> trace[Len(trace)] = HwEv("msoapxbc_rsa_unseal_data", FALSE)
        /\ res.kind = "InvalidJson"
             <=> /\ trace[Len(trace)] = HwEv("msoapxbc_rsa_unseal_data", TRUE)
                 /\ ~KeyMismatch
                 /\ ~json_from_slice_PRT(Unwrap(l.sealed_in).data).ok

(* Sealed bytes that are no PRT were unsealed and reported. *)
CorruptedFormatReported ==
    /\ UnsealFailed
    /\ res.kind = "InvalidJson"
    /\ Unwrap(l.sealed_in).data = GarbageBytes

(* C5: when enroll_device returns Ok, the held transport key is the
   returned transport key and the held cert key is the returned cert key,
   which is the one the certificate was associated with. *)
EnrollSuccessHoldsReturned ==
    Succeeded("enroll_device") =>
        /\ self_transport_key = Some(Unwrap(res.val)[1])
        /\ self_cert_key = Some(Unwrap(res.val)[2])
        /\ Unwrap(res.val)[2].cert = l.cert
        /\ IsSome(l.cert)
        /\ Unwrap(res.val)[2] # Unwrap(l.loadable_cert_key)

(* An enrollment of a client that held handles already has succeeded. *)
EnrollSucceeded ==
    /\ Succeeded("enroll_device")
    /\ Unwrap(l.old_transport_key) = Some(TransportKey0)
    /\ Unwrap(l.old_cert_key) = Some(CertKey0)

(* C6: when enroll_device returns an error or is cancelled, the held
   transport key and the held cert key are those from before the call. *)
EnrollFailureKeepsHandles ==
    (opname = "enroll_device" /\ Finished /\ res.status \in {"err", "cancelled"}) =>
        /\ self_transport_key = Unwrap(l.old_transport_key)
        /\ self_cert_key = Unwrap(l.old_cert_key)

(* The step is one that loads a held handle. *)
AtKeyStep ==
    pc > 0 /\ Program(opname)[pc] \in {"transport_key", "transport_key_sign", "cert_key"}

HeldFor == IF AtStep("cert_key") THEN self_cert_key ELSE self_transport_key

LoadCallFor ==
    IF AtStep("cert_key") THEN "identity_key_load" ELSE "msoapxbc_rsa_key_load"

(* C7: a step that needs a handle the client does not hold ends the
   operation with ConfigError; one whose held handle the hardware
   capability cannot load ends it with TPMFail; and ConfigError is returned
   for a missing handle only. *)
KeyErrorKinds ==
    /\ [](res.kind = "ConfigError" => (self_transport_key = None \/ self_cert_key = None))
    /\ [][AtKeyStep =>
            /\ HeldFor = None =>
                 (pc' = 0 /\ res'.status = "err" /\ res'.kind = "ConfigError"
                    /\ trace' = trace)
            /\ (HeldFor # None /\ pc' = 0) =>
                 (res'.status = "err" /\ res'.kind = "TPMFail"
                    /\ trace' = Append(trace, HwEv(LoadCallFor, FALSE)))]_vars

(* A rotation by a client without a transport key has ended. *)
MissingTransportKeyReported ==
    /\ opname = "exchange_prt_for_prt"
    /\ Finished
    /\ self_transport_key = None
    /\ res.kind = "ConfigError"

(* The signed assertions and the answered nonce requests of the trace. *)
JwtIdx == {i \in DOMAIN trace : trace[i].k = "jwt"}

NonceIdx ==
    {i \in DOMAIN trace : trace[i].k = "net" /\ trace[i].what = "nonce"
                            /\ trace[i].st = "ok"}

(* C8: every assertion an operation builds or signs embeds a nonce that a
   nonce request of the same operation returned before, no two signed
   assertions embed the same nonce, and an operation that signs two
   assertions has issued two nonce requests. *)
FreshNoncePerAssertion ==
    /\ \A i \in JwtIdx :
         \E j \in NonceIdx : j < i /\ trace[j].nonce = trace[i].nonce
    /\ \A i, k \in JwtIdx : i # k => trace[i].nonce # trace[k].nonce
    /\ (pc > 0 /\ IsSome(l.jwt)) =>
         \E j \in NonceIdx : trace[j].nonce = Unwrap(l.jwt).request_nonce
    /\ Cardinality(JwtIdx) <= Cardinality(NonceIdx)

(* acquire_token_by_username_password has succeeded with two assertions. *)
TwoAssertionsSigned ==
    /\ Succeeded("acquire_token_by_username_password")
    /\ Cardinality(JwtIdx) = 2
    /\ Cardinality(NonceIdx) = 2

(* C9: a network request or hardware call that failed is the last event of
   its operation, and the operation has ended with an error of that
   failure's kind. *)
NoRetryAfterFailure ==
    \A i \in DOMAIN trace :
        trace[i].st = "fail" =>
            /\ i = Len(trace)
            /\ pc = 0
            /\ res.status = "err"
            /\ trace[i].k = "hw" <=> res.kind \in {"TPMFail", "CryptoFail"}

(* A token acquisition has ended at its failed exchange POST, after two
   nonce requests and the PRT POST had succeeded. *)
FailedMidFlow ==
    /\ opname = "acquire_token_by_refresh_token"
    /\ Finished
    /\ res.status = "err"
    /\ trace[Len(trace)] = NetEv("xchg_post", "fail")

(* C10: a successful acquire_user_prt_by_username_password or
   acquire_user_prt_by_refresh_token has sent one nonce request and then
   one jwt-bearer POST to the token endpoint, and no other request. *)
AcquirePrtRequests ==
    (\/ Succeeded("acquire_user_prt_by_username_password")
     \/ Succeeded("acquire_user_prt_by_refresh_token")) =>
        /\ Len(NetEvents) = 2
        /\ NetEvents[1].what = "nonce" /\ NetEvents[1].st = "ok"
        /\ NetEvents[2].what = "prt_post" /\ NetEvents[2].st = "ok"

(* acquire_user_prt_by_username_password has returned sealed data. *)
AcquirePrtSucceeded ==
    /\ Succeeded("acquire_user_prt_by_username_password")
    /\ res.val = l.sealed
    /\ PrtIn(Unwrap(l.sealed)).session_key_jwe = Some("E1")

(* The last request went to the token endpoint and its answer had a
   non-success status and a body that is a structured error. *)
StructuredErrorAnswered ==
    /\ opname
         \notin {"enroll_device", "acquire_token_by_username_password_for_device_enrollment"}
    /\ IsSome(l.resp)
    /\ ~is_success(Unwrap(l.resp).status)
    /\ IsSome(Unwrap(l.resp).body)
    /\ resp_json_ErrorResponse(Unwrap(Unwrap(l.resp).body)).ok

(* C11: when the token endpoint answers a nonce request, a PRT POST, an
   exchange POST or a rotation POST with a non-success status and a
   structured error body, the operation ends there with AcquireTokenFailed
   carrying the error and the description of that body. *)
TokenEndpointErrorSurfaced ==
    StructuredErrorAnswered =>
        /\ Finished
        /\ res.status = "err"
        /\ res.kind = "AcquireTokenFailed"
        /\ Unwrap(res.val).error = Unwrap(Unwrap(l.resp).body).j.o.error.s
        /\ Unwrap(res.val).error_description
             = Unwrap(Unwrap(l.resp).body).j.o.error_description.s
        /\ trace[Len(trace)].k = "net"
        /\ trace[Len(trace)].st = "fail"
        /\ trace[Len(trace)].what \in {"nonce", "prt_post", "xchg_post", "rot_post"}

(* A rotation POST was answered 400 with invalid_grant. *)
RotationRefusedByServer ==
    /\ opname = "exchange_prt_for_prt"
    /\ StructuredErrorAnswered
    /\ Unwrap(l.resp).status = 400
    /\ trace[Len(trace)].what = "rot_post"
    /\ Unwrap(res.val).error = "invalid_grant"

(* The response of an exchange or rotation POST is there and its
   decryption has failed: the key agreement or the decipher call. *)
DecryptionFailed ==
    /\ IsSome(l.jwe)
    /\ trace[Len(trace)].k = "hw"
    /\ trace[Len(trace)].st = "fail"
    /\ trace[Len(trace)].what
         \in {"complete_tpm_rsa_oaep_key_agreement", "decipher_prt_v2"}

(* The response was encrypted under another session key than the PRT's. *)
WrongSessionKey ==
    /\ IsSome(l.jwe)
    /\ IsSome(l.session_key)
    /\ Unwrap(l.jwe).enc_for # Unwrap(l.session_key).session_key_jwe

(* C12: in an access-token exchange or a rotation, when the decryption of
   a success response fails (key agreement or decipher), the operation ends
   with CryptoFail and nothing was parsed from the response; a response
   under another session key never yields a token or a PRT and ends in no
   other error than CryptoFail. *)
DecryptFailureIsCryptoFail ==
    /\ DecryptionFailed =>
          /\ Finished
          /\ res.status = "err"
          /\ res.kind = "CryptoFail"
          /\ res.kind \notin {"InvalidJson", "InvalidParse"}
          /\ l.token = None
          /\ l.response_prt = None
    /\ WrongSessionKey =>
          /\ l.token = None
          /\ l.response_prt = None
          /\ Finished => (res.status = "err" /\ res.kind = "CryptoFail")

(* An exchange has ended at the decipher of a response that holds a valid
   UserToken under another session key. *)
WrongSessionKeyExchangeFailed ==
    /\ opname = "exchange_prt_for_access_token"
    /\ Finished
    /\ WrongSessionKey
    /\ Unwrap(l.jwe).payload = JsonBytes(TokenBodyFull)
    /\ trace[Len(trace)] = HwEv("decipher_prt_v2", FALSE)

(* C13: when enroll_device returns Ok, the join POST was answered with a
   success status and a certificate, the returned device id is the value of
   the first entry of that certificate's subject, and the returned cert key
   is the created cert key bound to that certificate by
   identity_key_associate_certificate, another handle than the created
   one. *)
EnrollReturnsSubjectDeviceId ==
    Succeeded("enroll_device") =>
        /\ is_success(Unwrap(l.resp).status)
        /\ IsSome(l.cert)
        /\ Unwrap(res.val)[3] = Unwrap(l.cert).subject[1]
        /\ Unwrap(res.val)[2]
             = [id |-> Unwrap(l.loadable_cert_key).id, cert |-> l.cert]
        /\ Unwrap(res.val)[2] # Unwrap(l.loadable_cert_key)
        /\ trace[Len(trace)] = HwEv("identity_key_associate_certificate", TRUE)

(* An enrollment has returned device-1234 from a subject of two entries. *)
EnrollReturnedDevice1234 ==
    /\ Succeeded("enroll_device")
    /\ Len(Unwrap(l.cert).subject) = 2
    /\ Unwrap(res.val)[3] = "device-1234"

(* The device-join endpoint has answered with a non-success status. *)
JoinRefused ==
    /\ opname = "enroll_device"
    /\ IsSome(l.resp)
    /\ ~is_success(Unwrap(l.resp).status)

(* C14: when the device-join endpoint answers with a non-success status,
   enroll_device ends with GeneralFailure, carrying the body as it was
   received when the body was read; identity_key_associate_certificate is
   not called and the held cert key is the one from before the call. *)
JoinErrorCarriesBody ==
    JoinRefused =>
        /\ Finished
        /\ res.status = "err"
        /\ res.kind = "GeneralFailure"
        /\ IsSome(Unwrap(l.resp).body) => res.val = Unwrap(l.resp).body
        /\ trace[Len(trace)] = NetEv("join_post", "fail")
        /\ \A i \in DOMAIN trace : trace[i].what # "identity_key_associate_certificate"
        /\ l.cert = None
        /\ l.new_loadable_cert_key = None
        /\ self_cert_key = Unwrap(l.old_cert_key)

(* The join POST of a client holding a cert key was answered 500 with a
   body that is no JSON. *)
JoinAnsweredBadGateway ==
    /\ JoinRefused
    /\ Unwrap(l.resp).status = 500
    /\ res.val = Some("Bad Gateway")
    /\ self_cert_key = Some(CertKey0)

(* The join POST was answered with a certificate whose subject has no
   entry, and enroll_device has ended. *)
SubjectEntryMissing ==
    /\ opname = "enroll_device"
    /\ Finished
    /\ IsSome(l.cert)
    /\ Len(Unwrap(l.cert).subject) = 0

(* C15: a returned certificate whose subject has no entry makes
   enroll_device fail with an error of another kind than the one a
   non-success status of the join endpoint is reported with. *)
MissingSubjectKindDistinct ==
    SubjectEntryMissing =>
        /\ res.status = "err"
        /\ res.kind # JoinError("Bad Gateway").kind

(* C16: the UserToken a successful acquire_token_by_username_password,
   acquire_token_by_refresh_token or exchange_prt_for_access_token returns
   has the client_info of the PRT that was exchanged. *)
TokenCarriesPrtClientInfo ==
    \A op \in {"acquire_token_by_username_password", "acquire_token_by_refresh_token",
                "exchange_prt_for_access_token"} :
        Succeeded(op) => Unwrap(res.val).client_info = Unwrap(l.prt).client_info

(* C17: the UserToken of a successful acquire_token_by_username_password or
   acquire_token_by_refresh_token has SealedData attached that unseals,
   under the held transport key, to the PRT the operation acquired and
   whose refresh_token its exchange assertion carried; the UserToken of the
   plain flow has no PRT attached. *)
AttachedPrtIsThePrtUsed ==
    /\ \A op \in {"acquire_token_by_username_password", "acquire_token_by_refresh_token"} :
          Succeeded(op) =>
              /\ IsSome(Unwrap(res.val).prt)
              /\ IsSome(self_transport_key)
              /\ unseal_user_prt(Unwrap(Unwrap(res.val).prt),
                                 Unwrap(self_transport_key), TRUE)
                   = Ok(Unwrap(l.prt))
              /\ Unwrap(l.signed_jwt).jwt.refresh_token
                   = Some(Unwrap(l.prt).refresh_token)
    /\ Succeeded("acquire_token_by_username_password_for_device_enrollment") =>
          Unwrap(res.val).prt = None

(* acquire_token_by_refresh_token has returned a token with the PRT of
   refresh_token rt-1 attached. *)
TokenWithSealedPrtReturned ==
    /\ Succeeded("acquire_token_by_refresh_token")
    /\ IsSome(Unwrap(res.val).prt)
    /\ PrtIn(Unwrap(Unwrap(res.val).prt)).refresh_token = "rt-1"
    /\ Unwrap(res.val).access_token = Some("at-1")

(* The value is SealedData that the hardware capability has produced, as
   the last call of the operation, under the held transport key from a
   serialized PRT. *)
SealedUnderHeldKey(sd) ==
    /\ DOMAIN sd = {"key", "data"}
    /\ Some(sd.key) = self_transport_key
    /\ json_from_slice_PRT(sd.data).ok
    /\ Ok(sd) = seal_user_prt(PrtIn(sd), Unwrap(self_transport_key), TRUE)
    /\ trace[Len(trace)] = HwEv("msoapxbc_rsa_seal_data", TRUE)

(* C18: what acquire_user_prt_by_username_password,
   acquire_user_prt_by_refresh_token and exchange_prt_for_prt return on
   success, and the prt of a returned UserToken, is SealedData produced
   under the held transport key; an exchanged or plain UserToken has no
   prt; and an error carries a message or the server's structured error,
   never a PRT. *)
PrtLeavesOnlySealed ==
    /\ \A op \in {"acquire_user_prt_by_username_password",
                   "acquire_user_prt_by_refresh_token", "exchange_prt_for_prt"} :
          Succeeded(op) => SealedUnderHeldKey(Unwrap(res.val))
    /\ \A op \in {"acquire_token_by_username_password", "acquire_token_by_refresh_token"} :
          Succeeded(op) =>
              /\ IsSome(Unwrap(res.val).prt)
              /\ SealedUnderHeldKey(Unwrap(Unwrap(res.val).prt))
    /\ \A op \in {"exchange_prt_for_access_token",
                   "acquire_token_by_username_password_for_device_enrollment"} :
          Succeeded(op) => Unwrap(res.val).prt = None
    /\ (Finished /\ res.status = "err") =>
          IF res.kind = "AcquireTokenFailed"
          THEN DOMAIN Unwrap(res.val) = {"error", "error_description"}
          ELSE Unwrap(res.val) \in STRING
    /\ (Finished /\ res.status = "cancelled") => res.val = None

(* A rotation has returned the sealed new PRT, which is not the PRT the
   response held. *)
RotatedPrtReturnedSealed ==
    /\ Succeeded("exchange_prt_for_prt")
    /\ SealedUnderHeldKey(Unwrap(res.val))
    /\ PrtIn(Unwrap(res.val)) = Unwrap(l.new_prt)
    /\ l.new_prt # l.response_prt

(* The calls of a hardware operation in the trace, and the successful ones. *)
HwCalls(what) == {i \in DOMAIN trace : trace[i].k = "hw" /\ trace[i].what = what}

HwCallsOk(what) == {i \in HwCalls(what) : trace[i].st = "ok"}

(* What the trace of an operation holds of key creation and key loading. *)
KeyCallsOfOperation ==
    /\ opname # "enroll_device" =>
          /\ HwCalls("identity_key_create") = {}
          /\ HwCalls("msoapxbc_rsa_key_create") = {}
          /\ IsSome(l.transport_key) => l.transport_key = self_transport_key
          /\ IsSome(l.transport_key_sign) => l.transport_key_sign = self_transport_key
          /\ IsSome(l.cert_key) => l.cert_key = self_cert_key
    /\ opname = "enroll_device" =>
          /\ Cardinality(HwCalls("identity_key_create")) <= 1
          /\ Cardinality(HwCalls("msoapxbc_rsa_key_create")) <= 1
          /\ (pc > 2 \/ Succeeded("enroll_device")) =>
                /\ Cardinality(HwCallsOk("identity_key_create")) = 1
                /\ Cardinality(HwCallsOk("msoapxbc_rsa_key_create")) = 1

(* C19: enroll_device calls identity_key_create and msoapxbc_rsa_key_create
   at most once each, and exactly once each, both creating a key, when it
   gets past key creation; no other operation calls either, each loads the
   handles the client holds; and the hardware capability creates a key only
   in these two steps of enroll_device. *)
KeysCreatedOnlyByEnrollment ==
    /\ []KeyCallsOfOperation
    /\ [][tpm_created' # tpm_created =>
            /\ opname = "enroll_device"
            /\ pc \in {1, 2}
            /\ tpm_created' = tpm_created + 1
            /\ trace'[Len(trace')].st = "ok"
            /\ trace'[Len(trace')].what
                 = IF pc = 1 THEN "identity_key_create" ELSE "msoapxbc_rsa_key_create"]_vars

(* A token acquisition and exchange has succeeded on a client whose
   hardware capability has created no key. *)
AcquiredWithLoadedKeys ==
    /\ Succeeded("acquire_token_by_username_password")
    /\ tpm_created = 0
    /\ Cardinality(HwCallsOk("msoapxbc_rsa_key_load")) = 2
    /\ Cardinality(HwCallsOk("identity_key_load")) = 1

(* An operation other than enroll_device runs or has just ended. *)
NonEnrollOperation == opname \notin {"none", "enroll_device"}

(* C20: from the call of an acquisition, exchange or rotation to its
   return, on success, on failure and on cancellation, the held transport
   key and cert key are those from before the call; a step changes a held
   handle only within enroll_device or as set_transport_key or set_cert_key
   called between operations. *)
HandlesChangeOnlyByEnrollOrSetters ==
    /\ [](NonEnrollOperation =>
             /\ self_transport_key = Unwrap(l.old_transport_key)
             /\ self_cert_key = Unwrap(l.old_cert_key))
    /\ [][(self_transport_key' # self_transport_key \/ self_cert_key' # self_cert_key) =>
            \/ opname = "enroll_device" /\ pc > 0 /\ opname' = opname
            \/ Idle /\ UNCHANGED <<tpm_created, opname, pc, awaiting, l, res, trace,
                                     stored, chain_root>>]_vars

(* A rotation has failed after its unseal, on a client that holds the
   transport key of an enrollment. *)
RotationEndedWithEnrolledHandles ==
    /\ opname = "exchange_prt_for_prt"
    /\ Finished
    /\ res.status = "err"
    /\ IsSome(l.prt)
    /\ IsSome(self_transport_key)
    /\ Unwrap(self_transport_key) # TransportKey0
    /\ self_transport_key = Unwrap(l.old_transport_key)

(* C21: when several broker operations run concurrently against one hardware
   context, no two calls of the hardware capability (key create, key load,
   sign, key agreement, seal, unseal, CSR, certificate association) are in
   progress at the same time. *)
HardwareCallsExclusive ==
    \A t \in Tasks, u \in Tasks : t # u => ~(l[t].hw /\ l[u].hw)

(* A hardware call is in progress in one operation while another operation of
   the same client is in flight. *)
HardwareCallBesideOtherOperation ==
    \E t \in Tasks, u \in Tasks :
        /\ t # u
        /\ l[t].hw
        /\ IsHwStep(StepOf(t))
        /\ pc[u] > 0

(* Two operations given the same hardware context: one awaits the answer of
   the token endpoint while the other awaits an answer or is in a call of the
   hardware capability. *)
RoundTripsOverlap ==
    \E t \in Tasks, u \in Tasks :
        /\ t # u
        /\ TakesTpm(opname[t]) /\ TakesTpm(opname[u])
        /\ awaiting[t] /\ StepOf(t) \in NetSteps \ {"discover", "join_post"}
        /\ awaiting[u] \/ l[u].hw

(* C22, as stated: the network round-trips of two operations that share one
   hardware context come to be in flight at the same time. *)
RoundTripsEventuallyOverlap == <>RoundTripsOverlap

(* C22, amended: operations given the same hardware context run one after
   the other as wholes; while one of them awaits the answer of the token
   endpoint, the only operations in flight beside it are those that take no
   hardware context. *)
SharedContextOperationsSerialized ==
    /\ ~RoundTripsOverlap
    /\ \A t \in Tasks, u \in Tasks :
         (t # u /\ awaiting[t] /\ TakesTpm(opname[t]) /\ pc[u] > 0)
             => ~TakesTpm(opname[u])

(* An operation holding the hardware context awaits the token endpoint while
   a plain flow of the same client awaits it too. *)
PlainFlowOverlapsBrokerRoundTrip ==
    \E t \in Tasks, u \in Tasks :
        /\ awaiting[t] /\ l[t].tpm /\ StepOf(t) = "xchg_post"
        /\ awaiting[u] /\ ~TakesTpm(opname[u])

(* Decoding a blob by field offsets: the u32 read from four bytes, least
   significant first, and the field that starts after `skip` bytes. *)
from_le_bytes(b) == b[1] + 256 * b[2] + 65536 * b[3] + 16777216 * b[4]

FieldAt(blob, skip, len) == SubSeq(blob, skip + 1, skip + len)

(* try_into has returned the bytes of a blob. *)
BlobEncoded == opname = "try_into" /\ pc = 0 /\ res.status = "ok"

(* C23: for every exponent e, modulus m and bit length b the Binary Key
   Encoder outputs exactly 24+|e|+|m| bytes: 'RSA1', b, |e|, |m| as u32 LE,
   two u32 zeros, then e, then m; decoding by these offsets recovers b, |e|,
   |m|, e and m, and the two reserved prime-length fields are zero. *)
KeyBlobLayout ==
    (opname = "try_into" /\ pc = 0) =>
        /\ res.status = "ok"
        /\ Len(Unwrap(res.val)) = 24 + Len(l.exponent) + Len(l.modulus)
        /\ FieldAt(Unwrap(res.val), 0, 4) = <<82, 83, 65, 49>>
        /\ from_le_bytes(FieldAt(Unwrap(res.val), 4, 4)) = l.bit_length
        /\ from_le_bytes(FieldAt(Unwrap(res.val), 8, 4)) = Len(l.exponent)
        /\ from_le_bytes(FieldAt(Unwrap(res.val), 12, 4)) = Len(l.modulus)
        /\ FieldAt(Unwrap(res.val), 16, 8) = <<0, 0, 0, 0, 0, 0, 0, 0>>
        /\ FieldAt(Unwrap(res.val), 24, Len(l.exponent)) = l.exponent
        /\ FieldAt(Unwrap(res.val), 24 + Len(l.exponent), Len(l.modulus)) = l.modulus

(* A 2048-bit key with a two-byte exponent and a one-byte modulus encoded. *)
KeyBlobEncoded2048 ==
    /\ BlobEncoded
    /\ l = [bit_length |-> 2048, exponent |-> <<1, 0>>, modulus |-> <<255>>]
    /\ Unwrap(res.val) =
         <<82, 83, 65, 49, 0, 8, 0, 0, 2, 0, 0, 0, 1, 0, 0, 0,
           0, 0, 0, 0, 0, 0, 0, 0, 1, 0, 255>>

(* The body parsed has every member a PRT must have, whatever optional
   members it omits. *)
PrtBodyComplete ==
    (DOMAIN PrtBodyFull.o) \ PrtOptionalKeys \subseteq DOMAIN l.body.o

(* The value a TGT field takes: all optional members absent, all numeric
   members 0. *)
IsEmptyTgt(g) ==
    /\ g.client_key = None /\ g.error = None /\ g.message_buffer = None
    /\ g.realm = None /\ g.sn = None /\ g.cn = None
    /\ g.key_type = 0 /\ g.session_key_type = 0 /\ g.account_type = 0

(* C24: a PRT response that omits tgt_ad and/or tgt_cloud parses, each
   omitted TGT field being the default TGT (optional members absent, numeric
   members 0); the same holds for a rotated PRT parsed from a decrypted
   response. *)
OmittedTgtDefaults ==
    (opname \in {"resp_json", "json_from_str"} /\ pc = 0 /\ PrtBodyComplete) =>
        /\ res.status = "ok"
        /\ ~HasKey(l.body, "tgt_ad") => IsEmptyTgt(Unwrap(res.val).tgt_ad)
        /\ ~HasKey(l.body, "tgt_cloud") => IsEmptyTgt(Unwrap(res.val).tgt_cloud)
        /\ HasKey(l.body, "tgt_cloud") => Unwrap(res.val).tgt_cloud = TGTCloud

(* A rotated PRT without tgt_ad, with tgt_cloud, has been parsed. *)
RotatedPrtWithoutTgtAdParsed ==
    /\ opname = "json_from_str" /\ pc = 0 /\ res.status = "ok"
    /\ ~HasKey(l.body, "tgt_ad") /\ HasKey(l.body, "tgt_cloud")
    /\ IsEmptyTgt(Unwrap(res.val).tgt_ad)
    /\ Unwrap(res.val).tgt_cloud = TGTCloud

(* The secrets an assertion payload leaves in memory once it is dropped:
   none when its type wipes itself on drop, else the refresh token it holds. *)
LeftByPayload(jwt) ==
    IF ZeroizeOnDrop(PayloadTypeOf(jwt)) THEN {}
    ELSE {jwt.refresh_token[i] : i \in DOMAIN jwt.refresh_token}

(* C25: on every exit path of every broker operation, every secret-bearing
   structure the operation built or received (the credential assertion
   payloads, the exchange assertion payload holding the PRT's refresh_token,
   the plaintext PRT, the enrollment response) has had its secret fields
   wiped by the time the operation returns. *)
SecretsWipedOnReturn ==
    (Finished /\ IsSome(l.jwt)) => LeftByPayload(Unwrap(l.jwt)) = {}

(* C26: every broker operation eventually returns a result (success or a
   typed error), provided each network call and each call of the hardware
   capability it makes returns; the only other end of an operation is the
   caller dropping its future. *)
OperationsReturn ==
    (pc > 0) ~> (pc = 0 /\ res.status \in {"ok", "err", "cancelled"})

(* The longest operation has returned its token after all of its requests
   and hardware calls. *)
LongestOperationReturned ==
    /\ Finished
    /\ opname = "acquire_token_by_refresh_token"
    /\ res.status = "ok"
    /\ Len(trace) >= Len(Program(opname)) - 1

(* The operations that begin with a PRT acquisition. *)
AcquisitionInProgress ==
    opname \in {"acquire_user_prt_by_username_password",
                "acquire_user_prt_by_refresh_token",
                "acquire_token_by_username_password",
                "acquire_token_by_refresh_token"}

(* What a PRT acquisition does, in order: the nonce request, the cert key
   loaded, the signer made, the assertion signed (the signed assertion), the
   jwt-bearer POST. *)
AcquisitionOrder ==
    <<"nonce", "identity_key_load", "JwsTpmSigner::new", "JwsTpmSigner::sign",
      "cert_key", "prt_post">>

(* C27: every PRT acquisition passes through request-nonce, build-assertion,
   sign-assertion (cert key), submit, parse-PRT in this order, skipping and
   reordering nothing: the assertion is never signed before its nonce has
   been received, and the jwt-bearer POST is never sent with an unsigned
   assertion. *)
AcquisitionStepsInOrder ==
    AcquisitionInProgress =>
        /\ \A i \in DOMAIN trace :
             i <= Len(AcquisitionOrder) =>
                 /\ trace[i].what = AcquisitionOrder[i]
                 /\ i < Len(trace) => trace[i].st = "ok"
        /\ IsSome(l.jwt) => (Len(trace) >= 1 /\ trace[1].st = "ok")
        /\ Len(trace) >= 5 =>
             /\ trace[5].k = "jwt"
             /\ trace[5].nonce = trace[1].nonce
             /\ IsSome(l.signed_jwt)
        /\ \A i \in DOMAIN trace : trace[i].what = "prt_post" => i = 6
        /\ (AtStep("prt_post") /\ awaiting) =>
             /\ IsSome(l.signed_jwt)
             /\ Unwrap(l.signed_jwt).signer = "cert_key"
             /\ Unwrap(l.signed_jwt).jwt.request_nonce = trace[1].nonce
        /\ IsSome(l.prt) => (Len(trace) >= 6 /\ trace[6].st = "ok")

(* A PRT acquisition by password has gone through all its steps and parsed
   the PRT. *)
AcquisitionParsedPrt ==
    /\ opname = "acquire_user_prt_by_username_password"
    /\ Len(trace) >= 6
    /\ trace[6] = NetEv("prt_post", "ok")
    /\ trace[5] = JwtEv("cert_key", trace[1].nonce)
    /\ IsSome(l.prt)

(* What enroll_device does, in order: the hardware calls that create the
   cert key and the transport key, build the CSR, load the transport key and
   export its public half, then discovery, the join POST, and the
   certificate association. *)
EnrollOrder ==
    <<"identity_key_create", "msoapxbc_rsa_key_create",
      "identity_key_certificate_request", "msoapxbc_rsa_key_load",
      "msoapxbc_rsa_public_as_der", "discover", "join_post",
      "identity_key_associate_certificate">>

(* C28: enroll_device creates the cert key, creates the transport key,
   builds the CSR, loads and exports the transport key's public half,
   discovers the join endpoint, POSTs the join request and binds the returned
   certificate, in this order; it sends no network request if an earlier
   hardware step failed, and calls certificate association only after a
   success-status response whose certificate parsed and yielded a device id. *)
EnrollStepsInOrder ==
    opname = "enroll_device" =>
        /\ Len(trace) <= Len(EnrollOrder)
        /\ \A i \in DOMAIN trace :
             /\ trace[i].what = EnrollOrder[i]
             /\ trace[i].k = (IF i \in {6, 7} THEN "net" ELSE "hw")
             /\ i < Len(trace) => trace[i].st = "ok"
        /\ Len(trace) = Len(EnrollOrder) =>
             /\ IsSome(l.resp) /\ is_success(Unwrap(l.resp).status)
             /\ IsSome(l.cert)
             /\ IsSome(l.device_id)
             /\ DeviceIdOf(Unwrap(l.cert)) = Ok(Unwrap(l.device_id))

(* An enrollment has gone through every step up to the certificate
   association. *)
EnrollReachedAssociation ==
    /\ opname = "enroll_device"
    /\ Len(trace) = Len(EnrollOrder)
    /\ trace[7] = NetEv("join_post", "ok")
    /\ trace[8].what = "identity_key_associate_certificate"

(* The positions in the trace of the successful key agreements. *)
KeyAgreements == HwCallsOk("complete_tpm_rsa_oaep_key_agreement")

(* C29: the session key is never cached: every SessionKey::sign and every
   SessionKey::decipher_prt_v2 performs its own RSA-OAEP key agreement
   through the hardware capability, so one successful access-token exchange
   or rotation performs exactly two key agreements (one before signing the
   assertion, one before decrypting the response), and a SessionKey object
   holds only the encrypted envelope. *)
SessionKeyNeverCached ==
    /\ \A i \in DOMAIN trace :
         (trace[i].k = "hw" /\ trace[i].what \in {"MsOapxbcSessionKey::sign",
                                                  "decipher_prt_v2"})
             => (i > 1 /\ i - 1 \in KeyAgreements)
    /\ (Finished /\ res.status = "ok" /\ HwCalls("decipher_prt_v2") # {}) =>
         /\ Cardinality(KeyAgreements) = 2
         /\ \E i \in KeyAgreements : trace[i + 1].what = "MsOapxbcSessionKey::sign"
         /\ \E i \in KeyAgreements : trace[i + 1].what = "decipher_prt_v2"
    /\ IsSome(l.session_key) =>
         DOMAIN Unwrap(l.session_key) = {"session_key_jwe"}

(* A rotation has succeeded after two key agreements. *)
RotationAfterTwoKeyAgreements ==
    /\ Succeeded("exchange_prt_for_prt")
    /\ Cardinality(KeyAgreements) = 2

(* An exchange or a rotation of a stored PRT is the operation. *)
ExchangeOperation ==
    opname \in {"exchange_prt_for_access_token", "exchange_prt_for_prt"}

(* C30: credential assertions (PRT acquisition by password or refresh token)
   are signed only with the cert key, and exchange and rotation assertions
   only through the session-key handshake with the transport key; so
   exchange_prt_for_access_token and exchange_prt_for_prt never load the cert
   key and do not fail with ConfigError when only the cert-key handle is
   absent. *)
AssertionsSignedWithTheirKey ==
    /\ IsSome(l.signed_jwt) =>
         IF PayloadTypeOf(Unwrap(l.signed_jwt).jwt) = "ExchangePRTPayload"
         THEN /\ Unwrap(l.signed_jwt).signer = "session_key"
              /\ Some(Unwrap(l.signed_jwt).key) = self_transport_key
         ELSE /\ Unwrap(l.signed_jwt).signer = "cert_key"
              /\ IsSome(self_cert_key)
              /\ Unwrap(l.signed_jwt).key = Unwrap(self_cert_key).id
    /\ \A i \in DOMAIN trace :
         trace[i].k = "jwt" =>
             /\ trace[i].what = "cert_key" => trace[i - 1].what = "JwsTpmSigner::sign"
             /\ trace[i].what = "session_key"
                    => trace[i - 1].what = "MsOapxbcSessionKey::sign"
    /\ ExchangeOperation =>
         /\ HwCalls("identity_key_load") = {}
         /\ HwCalls("JwsTpmSigner::new") = {}
         /\ HwCalls("JwsTpmSigner::sign") = {}
         /\ (Finished /\ res.kind = "ConfigError") => self_transport_key = None

(* An access token has been exchanged for by a client that holds no cert
   key, the assertion signed through the session key. *)
ExchangedWithoutCertKey ==
    /\ Succeeded("exchange_prt_for_access_token")
    /\ self_cert_key = None
    /\ \E i \in DOMAIN trace : trace[i].k = "jwt" /\ trace[i].what = "session_key"

(* The rotation POST, or the access-token exchange POST, is in flight. *)
RotationPosted == AtStep("rot_post") /\ awaiting

ExchangePosted == AtStep("xchg_post") /\ awaiting

(* The names of the form parameters sent. *)
FormKeys == {Unwrap(l.form)[i][1] : i \in DOMAIN Unwrap(l.form)}

(* C31, as stated: a rotation builds the request an access-token exchange
   (of the same PRT, for some scopes and some resource) builds, except that
   the assertion's scope has 'aza' added and the form has tgt=true exactly
   when request_tgt is true. *)
RotationRequestIsExchangeRequest ==
    RotationPosted =>
        \E scope \in Scopes, resource \in {None, Some("https://graph.microsoft.com")} :
            /\ [Unwrap(l.jwt) EXCEPT !.scope = ""] =
                 [ExchangePRTPayload_new(Unwrap(l.prt), scope,
                                         Unwrap(l.jwt).request_nonce,
                                         Some(ResourceOf(resource)), FALSE)
                    EXCEPT !.scope = ""]
            /\ ("tgt" \in FormKeys) = l.request_tgt

(* C31, amended: a rotation builds its request as an access-token exchange
   does, with no requested scopes, with no resource (an exchange always names
   one) and with 'aza' added to the scope; its form has tgt=true exactly when
   request_tgt is true.  The assertion of an access-token exchange has no
   'aza' added and its form no tgt parameter.  The answer to a rotation is
   parsed as a PrimaryRefreshToken, never as a UserToken. *)
RotationRequestAndAnswer ==
    /\ RotationPosted =>
         /\ Unwrap(l.jwt) =
              [scope |-> "openid " \o " aza", resource |-> None,
               request_nonce |-> Unwrap(l.nonce),
               refresh_token |-> Some(Unwrap(l.prt).refresh_token),
               iss |-> "aad:brokerplugin", grant_type |-> "refresh_token",
               client_id |-> "38aa3b87-a06d-4817-b275-7a316988d93b",
               aud |-> "login.microsoftonline.com"]
         /\ SubSeq(Unwrap(l.form), 1, 4) =
              <<<<"grant_type", "urn:ietf:params:oauth:grant-type:jwt-bearer">>,
                <<"windows_api_version", "2.2">>,
                <<"request", Unwrap(l.signed_jwt)>>, <<"client_info", "1">>>>
         /\ Unwrap(l.signed_jwt).jwt = Unwrap(l.jwt)
         /\ IF l.request_tgt
            THEN Unwrap(l.form) = Append(SubSeq(Unwrap(l.form), 1, 4), <<"tgt", "true">>)
            ELSE Len(Unwrap(l.form)) = 4
    /\ ExchangePosted =>
         /\ Unwrap(l.jwt).scope \in {"openid ", "openid User.Read Mail.Read"}
         /\ (Unwrap(l.jwt).scope = "openid ") = (l.scope = <<>>)
         /\ IsSome(Unwrap(l.jwt).resource)
         /\ [Unwrap(l.jwt) EXCEPT !.scope = "", !.resource = None] =
              [scope |-> "", resource |-> None,
               request_nonce |-> Unwrap(l.nonce),
               refresh_token |-> Some(Unwrap(l.prt).refresh_token),
               iss |-> "aad:brokerplugin", grant_type |-> "refresh_token",
               client_id |-> "38aa3b87-a06d-4817-b275-7a316988d93b",
               aud |-> "login.microsoftonline.com"]
         /\ Unwrap(l.form) =
              <<<<"grant_type", "urn:ietf:params:oauth:grant-type:jwt-bearer">>,
                <<"windows_api_version", "2.2">>,
                <<"request", Unwrap(l.signed_jwt)>>, <<"client_info", "1">>>>
    /\ opname = "exchange_prt_for_prt" =>
         /\ l.token = None
         /\ IsSome(l.response_prt) =>
              /\ "tgt_cloud" \in DOMAIN Unwrap(l.response_prt)
              /\ "access_token" \notin DOMAIN Unwrap(l.response_prt)
    /\ opname = "exchange_prt_for_access_token" =>
         /\ l.response_prt = None
         /\ IsSome(l.token) => "access_token" \in DOMAIN Unwrap(l.token)

(* A rotation that asks for no TGT has its POST in flight, the scope of its
   assertion with 'aza', its form without tgt. *)
RotationPostedWithoutTgt ==
    /\ RotationPosted
    /\ ~l.request_tgt
    /\ "tgt" \notin FormKeys
    /\ Unwrap(l.signed_jwt).jwt.scope = "openid " \o " aza"

(* C38: the scope of every exchange or rotation assertion is 'openid', then
   the requested scopes in the order given, then 'aza' exactly when a PRT is
   requested, with one space between consecutive entries and no empty entry,
   also when no scope is requested. *)
ScopeStringWellFormed ==
    /\ ExchangePosted =>
         Unwrap(l.signed_jwt).jwt.scope = ScopesOf_joined(l.scope, FALSE)
    /\ RotationPosted =>
         Unwrap(l.signed_jwt).jwt.scope = ScopesOf_joined(<<>>, TRUE)

(* Both forms of the id_token have been decoded. *)
BothDecoded == IsSome(l.from_str) /\ IsSome(l.from_map)

(* C32: an id_token that arrives as a compact string whose second segment
   is the base64url text of a JSON object decodes as that object given
   directly does: both to the same IdToken, or both fail.  A string that
   cannot be parsed fails, and fails the deserialization of the UserToken
   that carries it; a UserToken is never made with a default id_token. *)
StringAndStructureAgree ==
    /\ (BothDecoded /\ l.form \notin Unparseable) =>
         /\ Unwrap(l.from_str).ok = Unwrap(l.from_map).ok
         /\ Unwrap(l.from_str).ok => Unwrap(l.from_str).v = Unwrap(l.from_map).v
    /\ (IsSome(l.from_str) /\ l.form \in Unparseable) => ~Unwrap(l.from_str).ok
    /\ (IsSome(l.user_token) /\ l.form \in Unparseable) => ~Unwrap(l.user_token).ok
    /\ (IsSome(l.user_token) /\ IsSome(l.from_map) /\ l.form \notin Unparseable) =>
         /\ Unwrap(l.user_token).ok = Unwrap(l.from_map).ok
         /\ Unwrap(l.user_token).ok =>
              Unwrap(l.user_token).v.id_token = Unwrap(l.from_map).v

(* A compact token and its object have both been decoded, to an IdToken
   without preferred_username and with a tenant_region_scope. *)
CompactTokenDecoded ==
    /\ BothDecoded
    /\ l.form = "compact"
    /\ Unwrap(l.from_str).ok
    /\ Unwrap(l.from_str).v.preferred_username = None
    /\ Unwrap(l.from_str).v.tenant_region_scope = Some("uuid-1")
    /\ Unwrap(l.from_str).v.name = "Ann"

(* The network requests the operation has sent, in order. *)
RequestsSent ==
    LET IsRequest(e) == e.k = "net"
        sent == SelectSeq(trace, IsRequest)
    IN  [i \in 1..Len(sent) |-> sent[i].what]

MissingKeyReported == Finished /\ res.status = "err" /\ res.kind = "ConfigError"

AcquisitionOps ==
    {"acquire_user_prt_by_username_password", "acquire_user_prt_by_refresh_token",
     "acquire_token_by_username_password", "acquire_token_by_refresh_token"}

ExchangeOps == {"exchange_prt_for_access_token", "exchange_prt_for_prt"}

(* C33, as stated: an operation that requires a key handle the client does
   not hold fails with ConfigError without having sent a network request. *)
MissingKeyFailsBeforeAnyRequest ==
    /\ MissingKeyReported => RequestsSent = <<>>
    /\ (Finished /\ opname \in AcquisitionOps
          /\ (self_cert_key = None \/ self_transport_key = None)) =>
         RequestsSent = <<>>

(* C33, amended: an operation that requires a key handle the client does not
   hold fails with ConfigError when it comes to load that handle, with no
   hardware call for it.  The exchange and the rotation load the transport
   key first and have then sent no network request.  The acquisitions load
   the cert key after the nonce request and the transport key after the
   jwt-bearer POST: without the cert key they fail having sent the nonce
   request only, without the transport key alone having sent the nonce
   request and the POST. *)
MissingKeyFailsAtItsLoad ==
    /\ MissingKeyReported =>
         /\ opname \in AcquisitionOps \cup ExchangeOps
         /\ opname \in ExchangeOps =>
              /\ self_transport_key = None
              /\ trace = <<>>
         /\ (opname \in AcquisitionOps /\ self_cert_key = None) =>
              /\ RequestsSent = <<"nonce">>
              /\ Len(trace) = 1
         /\ (opname \in AcquisitionOps /\ self_cert_key # None) =>
              /\ self_transport_key = None
              /\ RequestsSent = <<"nonce", "prt_post">>
              /\ trace[Len(trace)] = NetEv("prt_post", "ok")
    /\ (Finished /\ opname \in ExchangeOps /\ self_transport_key = None) =>
         MissingKeyReported
    /\ (Finished /\ opname \in AcquisitionOps /\ self_cert_key = None
          /\ Len(trace) > 0 /\ trace[1].st = "ok") =>
         MissingKeyReported
    /\ (Finished /\ opname \in AcquisitionOps /\ self_transport_key = None
          /\ Len(trace) > 0 /\ trace[Len(trace)] = NetEv("prt_post", "ok")) =>
         MissingKeyReported

(* An acquisition on a client without cert key has failed with ConfigError
   after its nonce request was answered. *)
MissingCertKeyAfterNonce ==
    /\ MissingKeyReported
    /\ opname = "acquire_token_by_username_password"
    /\ self_cert_key = None
    /\ RequestsSent = <<"nonce">>

(* The SealedData the caller keeps was sealed under the held transport key:
   unseal_user_prt does not fail on it for want of the key. *)
StoredUnsealable ==
    IsSome(stored) /\ self_transport_key = Some(Unwrap(stored).key)

(* C34: SealedData the client returned stays unsealable by it through every
   step, except a step by which enroll_device returns Ok and a call of
   set_transport_key; a failed or cancelled enroll_device leaves it so. *)
SealedStaysUnsealable ==
    [][(StoredUnsealable /\ stored' = stored /\ ~StoredUnsealable') =>
         \/ pc = 0 /\ pc' = 0
         \/ opname = "enroll_device" /\ pc > 0 /\ pc' = 0 /\ res'.status = "ok"]_vars

(* The exchange or rotation has unsealed a PRT without a session-key
   envelope, or one whose envelope is no compact JWE. *)
UnsealedWithoutEnvelope ==
    opname \in ExchangeOps /\ IsSome(l.prt) /\ Unwrap(l.prt).session_key_jwe = None

UnsealedWithBadEnvelope ==
    opname \in ExchangeOps /\ IsSome(l.prt)
      /\ Unwrap(l.prt).session_key_jwe = Some("not a jwe")

(* C35: an exchange or a rotation of a sealed PRT without session-key
   envelope, or with an envelope that is no compact JWE, sends no network
   request, and ends with CryptoFail (no envelope) or InvalidParse (an
   envelope that does not parse) at the step that makes the session key. *)
BadEnvelopeFailsBeforeRequests ==
    (UnsealedWithoutEnvelope \/ UnsealedWithBadEnvelope) =>
        /\ RequestsSent = <<>>
        /\ ~awaiting
        /\ pc > 0 => AtStep("session_key")
        /\ pc = 0 =>
             /\ res.status = "err"
             /\ res.kind = IF UnsealedWithoutEnvelope THEN "CryptoFail" ELSE "InvalidParse"

(* A rotation of a PRT whose envelope does not parse has failed after the
   transport key was loaded and the PRT unsealed, and nothing else. *)
RotationRefusedBadEnvelope ==
    /\ UnsealedWithBadEnvelope
    /\ opname = "exchange_prt_for_prt"
    /\ Finished
    /\ res.kind = "InvalidParse"
    /\ trace = <<HwEv("msoapxbc_rsa_key_load", TRUE), HwEv("msoapxbc_rsa_unseal_data", TRUE)>>

TokenAcquisitionOps ==
    {"acquire_token_by_username_password", "acquire_token_by_refresh_token"}

(* C36: in acquire_token_by_username_password and _by_refresh_token, once
   the PRT is acquired, a failure of any later step (or a cancellation) ends
   the operation with that error alone: Ok is returned only when every step
   has succeeded, and with an error the caller is handed no SealedData. *)
FailureAfterPrtReturnsOnlyError ==
    /\ [](\A op \in TokenAcquisitionOps :
            Succeeded(op) =>
              /\ \A i \in 1..Len(trace) : trace[i].st = "ok"
              /\ IsSome(l.token) /\ IsSome(l.sealed)
              /\ res.val = Some(RetVal(op, l)))
    /\ [][(opname \in TokenAcquisitionOps /\ pc > 0 /\ pc' = 0 /\ IsSome(l'.prt)
             /\ res'.status # "ok") =>
            /\ res'.status \in {"err", "cancelled"}
            /\ DOMAIN res' = {"status", "kind", "val"}
            /\ res'.status = "cancelled" => res'.val = None
            /\ stored' = stored
            /\ chain_root' = chain_root
            /\ l'.sealed = None]_vars

(* A token acquisition has acquired its PRT and exchanged it, and has failed
   at the last step, the sealing of the PRT. *)
TokenAcquisitionFailedAtSeal ==
    /\ opname = "acquire_token_by_refresh_token"
    /\ Finished
    /\ res.status = "err"
    /\ res.kind = "TPMFail"
    /\ IsSome(l.prt)
    /\ IsSome(l.token)
    /\ trace[Len(trace)] = HwEv("msoapxbc_rsa_seal_data", FALSE)
    /\ stored = None

(* C37: for every non-negative integer n, the expiry decoder on the JSON
   number n and on the decimal string of n either yields n for both or fails
   for both, also for n beyond the largest 32-bit value. *)
NumberAndStringAgree ==
    (IsSome(l.from_number) /\ IsSome(l.from_string)) =>
        \/ /\ Unwrap(l.from_number) = Ok(l.n)
           /\ Unwrap(l.from_string) = Ok(l.n)
        \/ /\ ~Unwrap(l.from_number).ok
           /\ ~Unwrap(l.from_string).ok
====
